---- MODULE Spec2Model ----
(***************************************************************************)
(* Agent-Handoff: the session workflow state machine                       *)
(* (tools/workflow_tools.py, WorkflowToolsHandler) and the sandboxed       *)
(* document-store tools (tools/utility_tools.py, UtilityToolsHandler),     *)
(* running over one POSIX filesystem.                                      *)
(*                                                                         *)
(* Python values are modelled as follows: str is a TLA+ string, list is a  *)
(* sequence, dict is a function whose domain is its set of keys (a key    *)
(* that was never assigned is not in the domain), None is the string       *)
(* "None".  datetime.now().isoformat() is the opaque value Now: no handler *)
(* reads a timestamp back.  uuid.uuid4() is a counter of values that were  *)
(* not drawn before.  The fixed instruction and suggestion texts of the    *)
(* responses are not part of the model; every other response field is.     *)
(***************************************************************************)
EXTENDS Integers, Sequences, FiniteSets, TLC

(***************************************************************************)
(* Bounds of the model                                                     *)
(***************************************************************************)
MaxSessions == 2    \* start_work calls in a run
MaxProgress == 2    \* progress entries recorded in a run
MaxIssues == 1      \* issue entries recorded in a run
MaxFileLen == 3     \* characters of a file grown by append_file
MaxFiles == 2       \* files on disk
MaxServerSessions == 1    \* start_work calls in a run of the server
MaxServerEntries == 1     \* progress and issue entries in a run of the server
MaxTasks == 2             \* calls in flight at the same time
MaxLiveSessions == 1      \* start_work calls in a run checked for liveness

(***************************************************************************)
(* Program constants                                                       *)
(***************************************************************************)
MinReadmeLen == 50
MaxLines == 300
MaxDirFiles == 8

None == "None"
Now == "now"

(***************************************************************************)
(* dict                                                                    *)
(***************************************************************************)
Get(d, k, default) == IF k \in DOMAIN d THEN d[k] ELSE default

Put(d, k, v) == [x \in (DOMAIN d) \cup {k} |-> IF x = k THEN v ELSE d[x]]

(***************************************************************************)
(* str                                                                     *)
(***************************************************************************)
CharAt(s, i) == SubSeq(s, i, i)

startswith(s, prefix) ==
    /\ Len(prefix) <= Len(s)
    /\ SubSeq(s, 1, Len(prefix)) = prefix

RECURSIVE lstrip(_)
lstrip(s) ==
    IF Len(s) > 0 /\ CharAt(s, 1) \in {" ", "\t", "\n", "\r", "\f"}
    THEN lstrip(SubSeq(s, 2, Len(s)))
    ELSE s

RECURSIVE rstrip(_)
rstrip(s) ==
    IF Len(s) > 0 /\ CharAt(s, Len(s)) \in {" ", "\t", "\n", "\r", "\f"}
    THEN rstrip(SubSeq(s, 1, Len(s) - 1))
    ELSE s

strip(s) == rstrip(lstrip(s))

RECURSIVE str_int(_)
str_int(n) ==
    LET Digits == <<"0", "1", "2", "3", "4", "5", "6", "7", "8", "9">>
    IN  IF n < 10 THEN Digits[n + 1]
        ELSE str_int(n \div 10) \o Digits[(n % 10) + 1]

(***************************************************************************)
(* Text files.  Path.write_text and Path.read_text open the file in text   *)
(* mode with newline=None: on writing every "\n" becomes os.linesep, on    *)
(* reading "\r\n" and a lone "\r" become "\n" (universal newlines).        *)
(***************************************************************************)
RECURSIVE translate_on_write(_)
translate_on_write(data) ==
    LET linesep == "\n"
        half == Len(data) \div 2
    IN  IF data = "" THEN ""
        ELSE IF Len(data) = 1 THEN (IF data = "\n" THEN linesep ELSE data)
        ELSE translate_on_write(SubSeq(data, 1, half))
                 \o translate_on_write(SubSeq(data, half + 1, Len(data)))

RECURSIVE universal_newlines(_)
universal_newlines(bytes) ==
    IF bytes = "" THEN ""
    ELSE IF bytes = "\r\n" \/ bytes = "\r" THEN "\n"
    ELSE IF Len(bytes) = 1 THEN bytes
    ELSE LET half == Len(bytes) \div 2
             \* a "\r\n" pair is never cut in two
             cut == IF SubSeq(bytes, half, half + 1) = "\r\n" THEN half + 1 ELSE half
         IN  universal_newlines(SubSeq(bytes, 1, cut))
                 \o universal_newlines(SubSeq(bytes, cut + 1, Len(bytes)))

(***************************************************************************)
(* Layout of the project on disk                                           *)
(***************************************************************************)
project_root == "/p"
docs_dir == "/p/docs"
config_dir == "/p/.agent_handoff"
history_dir == config_dir \o "/history"
agentreadme_path == project_root \o "/agentreadme.md"

history_file(session_id) == history_dir \o "/session_" \o session_id \o ".json"

(***************************************************************************)
(* pathlib on POSIX.  A path is [absolute, parts]; Path(text) drops empty  *)
(* and "." components and keeps "..".                                      *)
(***************************************************************************)
RECURSIVE split_slash(_)
split_slash(s) ==
    IF s = "" THEN <<"">>
    ELSE LET rest == split_slash(SubSeq(s, 2, Len(s)))
         IN  IF CharAt(s, 1) = "/"
             THEN <<"">> \o rest
             ELSE <<CharAt(s, 1) \o Head(rest)>> \o Tail(rest)

Path(text) ==
    [absolute |-> startswith(text, "/"),
     parts |-> SelectSeq(split_slash(text), LAMBDA x : x # "" /\ x # ".")]

RECURSIVE join_parts(_)
join_parts(parts) ==
    IF Len(parts) = 0 THEN ""
    ELSE IF Len(parts) = 1 THEN parts[1]
    ELSE parts[1] \o "/" \o join_parts(Tail(parts))

path_str(path) ==
    IF path.absolute THEN "/" \o join_parts(path.parts)
    ELSE IF Len(path.parts) = 0 THEN "."
    ELSE join_parts(path.parts)

\* a / b
path_join(a, b) ==
    IF b.absolute THEN b
    ELSE [absolute |-> a.absolute, parts |-> a.parts \o b.parts]

\* a.relative_to(b) raises ValueError unless b's components start a's
is_relative_to(a, b) ==
    /\ a.absolute = b.absolute
    /\ Len(b.parts) <= Len(a.parts)
    /\ SubSeq(a.parts, 1, Len(b.parts)) = b.parts

relative_to(a, b) ==
    [absolute |-> FALSE, parts |-> SubSeq(a.parts, Len(b.parts) + 1, Len(a.parts))]

\* Path.resolve() of an absolute path on a tree without symbolic links
RECURSIVE resolve_parts(_, _)
resolve_parts(done, todo) ==
    IF Len(todo) = 0 THEN done
    ELSE IF Head(todo) = ".."
         THEN resolve_parts(SubSeq(done, 1, Len(done) - 1), Tail(todo))
    ELSE resolve_parts(Append(done, Head(todo)), Tail(todo))

resolve(path) == [absolute |-> TRUE, parts |-> resolve_parts(<<>>, path.parts)]

\* PurePath.parent of a resolved path, as text
RECURSIVE parent(_)
parent(p) ==
    IF Len(p) <= 1 THEN "/"
    ELSE IF CharAt(p, Len(p)) = "/" THEN SubSeq(p, 1, Len(p) - 1)
    ELSE parent(SubSeq(p, 1, Len(p) - 1))

\* a resolved path and the directories above it, the root excepted
RECURSIVE ancestors_and_self(_)
ancestors_and_self(p) ==
    IF p = "/" \/ p = "" THEN {}
    ELSE {p} \cup ancestors_and_self(parent(p))

\* PurePath.name of a resolved path
name_of(p) == LET dir == parent(p)
              IN  IF p = "/" THEN ""
                  ELSE IF dir = "/" THEN SubSeq(p, 2, Len(p))
                  ELSE SubSeq(p, Len(dir) + 2, Len(p))

RECURSIVE rfind_dot(_, _)
rfind_dot(name, i) ==
    IF i = 0 THEN 0
    ELSE IF CharAt(name, i) = "." THEN i
    ELSE rfind_dot(name, i - 1)

\* PurePath.suffix
suffix(p) ==
    LET name == name_of(p)
        i == rfind_dot(name, Len(name))
    IN  IF 1 < i /\ i < Len(name) THEN SubSeq(name, i, Len(name)) ELSE ""

RECURSIVE index_in(_, _, _)
index_in(c, alphabet, i) ==
    IF i > Len(alphabet) THEN 0
    ELSE IF CharAt(alphabet, i) = c THEN i
    ELSE index_in(c, alphabet, i + 1)

RECURSIVE lower(_)
lower(s) ==
    IF s = "" THEN ""
    ELSE LET c == CharAt(s, 1)
             i == index_in(c, "ABCDEFGHIJKLMNOPQRSTUVWXYZ", 1)
         IN  (IF i = 0 THEN c ELSE CharAt("abcdefghijklmnopqrstuvwxyz", i))
                 \o lower(SubSeq(s, 2, Len(s)))

(***************************************************************************)
(* The path sandbox                                                        *)
(***************************************************************************)
\* a sandbox that normalises the path and never checks where it lands
ensure_docs_path_unchecked(path) ==
    [ok |-> TRUE, path |-> path_str(resolve(path_join(Path(docs_dir), Path(path))))]

ensure_docs_path(path) ==
    LET requested_path == Path(path)
        docs == Path(docs_dir)
        outside == requested_path.absolute /\ ~is_relative_to(requested_path, docs)
        full_path ==
            IF requested_path.absolute
            THEN path_join(docs, relative_to(requested_path, docs))
            ELSE path_join(docs, requested_path)
        normalized == path_str(resolve(full_path))
    IN  IF outside
        THEN [ok |-> FALSE, message |-> "Path " \o path \o " is outside docs directory"]
        ELSE IF ~startswith(normalized, path_str(resolve(docs)))
        THEN [ok |-> FALSE,
              message |-> "Path " \o path \o " attempts to escape docs directory"]
        ELSE [ok |-> TRUE, path |-> normalized]

is_alias(path) == path = "../agentreadme.md" \/ path = "agentreadme.md"

(***************************************************************************)
(* The path arguments the document-store tools are called with             *)
(***************************************************************************)
AliasPaths == {"agentreadme.md", "../agentreadme.md"}

DocPaths ==
    {"", "a.md", "sub/b.PY", "./agentreadme.md",
     "../docs2/x.md", "../../etc/passwd"}

(***************************************************************************)
(* The filesystem: files maps the path of every regular text file to its   *)
(* bytes, dirs is the set of directories, history maps the path of every   *)
(* JSON record under history_dir to the value json.dump wrote.  No tool    *)
(* creates a symbolic link and the project tree holds none.                *)
(***************************************************************************)
exists(st, p) == p \in DOMAIN st.files \/ p \in st.dirs \/ p \in DOMAIN st.history

is_dir(st, p) == p \in st.dirs

is_file(st, p) == p \in DOMAIN st.files \/ p \in DOMAIN st.history

read_text(st, p) == universal_newlines(st.files[p])

write_text(st, p, data) == [st EXCEPT !.files = Put(@, p, translate_on_write(data))]

(***************************************************************************)
(* State of the server process and of the disk                             *)
(***************************************************************************)
VARIABLES
    active_sessions,      \* WorkflowToolsHandler.active_sessions: session id -> dict
    current_session_id,   \* WorkflowToolsHandler.current_session_id, or None
    uuid_drawn,           \* how many values uuid.uuid4() has returned
    files,                \* text files on disk: path -> bytes
    dirs,                 \* directories on disk
    history,              \* history records on disk: path -> dumped session
    response,             \* the last tool call and the payload it returned
    tasks                 \* the calls the event loop has accepted and not finished

vars == <<active_sessions, current_session_id, uuid_drawn, files, dirs, history, response,
          tasks>>

State ==
    [active_sessions |-> active_sessions,
     current_session_id |-> current_session_id,
     uuid_drawn |-> uuid_drawn,
     files |-> files,
     dirs |-> dirs,
     history |-> history]

\* a generator that hands out the same id every time
uuid4_fixed(n) == "uuid1"

uuid4(n) == "uuid" \o str_int(n)

WORK_STARTED == "work_started"
PLAN_SUBMITTED == "plan_submitted"
IN_PROGRESS == "in_progress"

create_error_response(code, message) ==
    [error |-> [code |-> code, message |-> message]]

\* What a handler hands back: the state it leaves, the payload it returns
\* (or the exception it raises), and the paths whose content it read or wrote.
Returned(st, out, reads, writes) ==
    [st |-> st, out |-> out, raised |-> None, reads |-> reads, writes |-> writes]

Raised(st, exc, reads, writes) ==
    [st |-> st, out |-> <<>>, raised |-> exc, reads |-> reads, writes |-> writes]

no_session(st) ==
    \/ st.current_session_id = None
    \/ st.current_session_id \notin DOMAIN st.active_sessions

\* session = self.active_sessions[self.current_session_id]
current_session(st) == st.active_sessions[st.current_session_id]

\* a write-back that lands in the first session ever created
store_session_first(st, session) ==
    [st EXCEPT !.active_sessions = Put(@, "uuid1", session)]

\* the handlers mutate that dict in place
store_session(st, session) ==
    [st EXCEPT !.active_sessions = Put(@, st.current_session_id, session)]

(***************************************************************************)
(* start_work                                                              *)
(***************************************************************************)
handle_start_work(st, arguments) ==
    LET user_goal == Get(arguments, "user_goal", "")
        session_id == uuid4(st.uuid_drawn + 1)
        st1 == [st EXCEPT
                  !.uuid_drawn = @ + 1,
                  !.current_session_id = session_id,
                  !.active_sessions = Put(@, session_id,
                        [state |-> WORK_STARTED,
                         user_goal |-> user_goal,
                         started_at |-> Now,
                         plan |-> None,
                         progress |-> <<>>])]
        present == exists(st1, agentreadme_path)
    IN  IF present /\ is_dir(st1, agentreadme_path)
        THEN Raised(st1, "IsADirectoryError", {}, {})
        ELSE Returned(st1,
                [session_id |-> session_id,
                 status |-> "work_started",
                 user_goal |-> user_goal,
                 agent_readme_content |->
                     IF present THEN read_text(st1, agentreadme_path) ELSE "",
                 next_step |-> "plan_setup"],
                IF present THEN {agentreadme_path} ELSE {},
                {})

(***************************************************************************)
(* plan_setup.  The plan_steps argument is a JSON value: the handler tests *)
(* isinstance(plan_steps, list), so the value carries its type.            *)
(***************************************************************************)
json_list(seq) == [type |-> "list", value |-> seq]

\* a plan_setup that also lets a planned session plan again
plan_setup_allowed_replan(session) == session["state"] \in {WORK_STARTED, PLAN_SUBMITTED}

plan_setup_allowed(session) == session["state"] = WORK_STARTED

valid_plan_steps(plan_steps) == plan_steps.type = "list" /\ Len(plan_steps.value) # 0

\* a plan_setup that marks the plan submitted even when it rejects the steps
handle_plan_setup_sticky(st, arguments) ==
    IF no_session(st)
    THEN Returned(st, create_error_response("WORKFLOW_VIOLATION",
                          "No active work session. Call start_work first."), {}, {})
    ELSE
    LET session == current_session(st)
        plan_steps == Get(arguments, "plan_steps", json_list(<<>>))
        steps == IF valid_plan_steps(plan_steps) THEN plan_steps.value ELSE <<>>
        session1 == Put(Put(Put(Put(session,
                        "plan_steps", steps),
                        "completed_steps", <<>>),
                        "current_step_index", 0),
                        "state", PLAN_SUBMITTED)
    IN  IF ~plan_setup_allowed(session)
        THEN Returned(st, create_error_response("WORKFLOW_VIOLATION",
                              "Invalid state for plan_setup. Current state: "
                                  \o session["state"]), {}, {})
        ELSE IF ~valid_plan_steps(plan_steps)
        THEN Returned(store_session(st, session1),
                      create_error_response("INVALID_INPUT",
                          "plan_steps must be a non-empty list of strings"), {}, {})
        ELSE Returned(
                store_session(st, session1),
                [status |-> "plan_accepted",
                 session_id |-> st.current_session_id,
                 total_steps |-> Len(steps),
                 plan_steps |-> steps,
                 current_step |-> "Step 1/" \o str_int(Len(steps)) \o ": " \o steps[1]],
                {}, {})

handle_plan_setup(st, arguments) ==
    IF no_session(st)
    THEN Returned(st, create_error_response("WORKFLOW_VIOLATION",
                          "No active work session. Call start_work first."), {}, {})
    ELSE
    LET session == current_session(st)
        plan_steps == Get(arguments, "plan_steps", json_list(<<>>))
    IN  IF ~plan_setup_allowed(session)
        THEN Returned(st, create_error_response("WORKFLOW_VIOLATION",
                              "Invalid state for plan_setup. Current state: "
                                  \o session["state"]), {}, {})
        ELSE IF ~valid_plan_steps(plan_steps)
        THEN Returned(st, create_error_response("INVALID_INPUT",
                              "plan_steps must be a non-empty list of strings"), {}, {})
        ELSE
        LET steps == plan_steps.value
            session1 == Put(Put(Put(Put(session,
                            "plan_steps", steps),
                            "completed_steps", <<>>),
                            "current_step_index", 0),
                            "state", PLAN_SUBMITTED)
        IN  Returned(
                store_session(st, session1),
                [status |-> "plan_accepted",
                 session_id |-> st.current_session_id,
                 total_steps |-> Len(steps),
                 plan_steps |-> steps,
                 current_step |-> "Step 1/" \o str_int(Len(steps)) \o ": " \o steps[1]],
                {}, {})

(***************************************************************************)
(* proceed                                                                 *)
(***************************************************************************)
\* a proceed that takes a session in any state
proceed_allowed_any(session) == TRUE

proceed_allowed(session) == session["state"] \in {PLAN_SUBMITTED, IN_PROGRESS}

\* a proceed that never ticks off the last planned step
step_advances_short(plan_steps, current_step_index) ==
    Len(plan_steps) > 0 /\ current_step_index < Len(plan_steps) - 1

step_advances(plan_steps, current_step_index) ==
    Len(plan_steps) > 0 /\ current_step_index < Len(plan_steps)

\* a proceed that ticks off the first planned step every time
completed_step_first(plan_steps, current_step_index) == plan_steps[1]

completed_step(plan_steps, current_step_index) == plan_steps[current_step_index + 1]

\* a proceed that skips a step
next_index_skip(current_step_index) == current_step_index + 2

next_index(current_step_index) == current_step_index + 1

handle_proceed(st, arguments) ==
    IF no_session(st)
    THEN Returned(st, create_error_response("WORKFLOW_VIOLATION",
                          "No active work session. Call start_work first."), {}, {})
    ELSE
    LET session == current_session(st)
    IN  IF ~proceed_allowed(session)
        THEN Returned(st, create_error_response("WORKFLOW_VIOLATION",
                              "Invalid state for proceed. Current state: "
                                  \o session["state"]), {}, {})
        ELSE
        LET completed_work == Get(arguments, "completed_work", "")
            session1 == Put(Put(session,
                            "progress", Append(session["progress"],
                                    [timestamp |-> Now, work |-> completed_work])),
                            "state", IN_PROGRESS)
            plan_steps == Get(session1, "plan_steps", <<>>)
            completed_steps0 == Get(session1, "completed_steps", <<>>)
            current_step_index0 == Get(session1, "current_step_index", 0)
            advance == step_advances(plan_steps, current_step_index0)
            completed_steps ==
                IF advance
                THEN Append(completed_steps0, completed_step(plan_steps, current_step_index0))
                ELSE completed_steps0
            current_step_index ==
                IF advance THEN next_index(current_step_index0) ELSE current_step_index0
            session2 ==
                IF advance
                THEN Put(Put(session1, "completed_steps", completed_steps),
                         "current_step_index", current_step_index)
                ELSE session1
        IN  Returned(
                store_session(st, session2),
                [status |-> "progress_recorded",
                 session_id |-> st.current_session_id,
                 completed_work |-> completed_work,
                 steps_completed |-> Len(completed_steps),
                 total_steps |-> Len(plan_steps),
                 completed_steps |-> completed_steps,
                 next_step |-> IF current_step_index < Len(plan_steps)
                               THEN plan_steps[current_step_index + 1]
                               ELSE None],
                {}, {})

(***************************************************************************)
(* report_issue                                                            *)
(***************************************************************************)
\* a report_issue that sends the session back to planning
handle_report_issue_blocking(st, arguments) ==
    IF no_session(st)
    THEN Returned(st, create_error_response("WORKFLOW_VIOLATION",
                          "No active work session. Call start_work first."), {}, {})
    ELSE
    LET issue_description == Get(arguments, "issue_description", "")
        attempted_solutions == Get(arguments, "attempted_solutions", "")
        session == current_session(st)
        session1 == Put(session, "issues", Append(Get(session, "issues", <<>>),
                            [timestamp |-> Now,
                             description |-> issue_description,
                             attempted_solutions |-> attempted_solutions]))
    IN  Returned(
            store_session(st, Put(session1, "state", WORK_STARTED)),
            [status |-> "issue_recorded",
             session_id |-> st.current_session_id,
             issue_description |-> issue_description],
            {}, {})

handle_report_issue(st, arguments) ==
    IF no_session(st)
    THEN Returned(st, create_error_response("WORKFLOW_VIOLATION",
                          "No active work session. Call start_work first."), {}, {})
    ELSE
    LET issue_description == Get(arguments, "issue_description", "")
        attempted_solutions == Get(arguments, "attempted_solutions", "")
        session == current_session(st)
        session1 == IF "issues" \notin DOMAIN session
                    THEN Put(session, "issues", <<>>)
                    ELSE session
        session2 == Put(session1, "issues", Append(session1["issues"],
                            [timestamp |-> Now,
                             description |-> issue_description,
                             attempted_solutions |-> attempted_solutions]))
    IN  Returned(
            store_session(st, session2),
            [status |-> "issue_recorded",
             session_id |-> st.current_session_id,
             issue_description |-> issue_description],
            {}, {})

(***************************************************************************)
(* end_job                                                                 *)
(***************************************************************************)
\* Path.mkdir(parents=True, exist_ok=True): the directory and its missing
\* ancestors.  Only reached with ancestors that are absent or directories.
\* a component of p that is a regular file makes mkdir and open fail
blocked_by_file(st, p) == \E a \in ancestors_and_self(p) : is_file(st, a)

mkdir_parents(st, p) == [st EXCEPT !.dirs = @ \cup ancestors_and_self(p)]

\* an end_job that never looks at the plan
plan_incomplete_never(plan_steps, completed_steps) == FALSE

plan_incomplete(plan_steps, completed_steps) ==
    Len(plan_steps) > 0 /\ Len(completed_steps) < Len(plan_steps)

\* the same checks with the handoff document looked at before the plan
end_job_rejection_doc_first(session, arguments) ==
    LET plan_steps == Get(session, "plan_steps", <<>>)
        completed_steps == Get(session, "completed_steps", <<>>)
        agentreadme_content == Get(arguments, "agentreadme_content", "")
    IN  IF session["state"] \notin {IN_PROGRESS}
        THEN create_error_response("WORKFLOW_VIOLATION",
                 "Cannot end job without completing work. Current state: "
                     \o session["state"])
        ELSE IF Len(Get(session, "progress", <<>>)) = 0
        THEN create_error_response("WORKFLOW_VIOLATION",
                 "Cannot end job without any completed work reported.")
        ELSE IF agentreadme_content = "" \/ Len(strip(agentreadme_content)) < MinReadmeLen
        THEN create_error_response("MISSING_AGENTREADME",
                 "You must provide the complete agentreadme.md file content.")
        ELSE IF plan_incomplete(plan_steps, completed_steps)
        THEN create_error_response("WORKFLOW_VIOLATION",
                 "Cannot end job with incomplete plan. Completed "
                     \o str_int(Len(completed_steps)) \o "/"
                     \o str_int(Len(plan_steps)) \o " steps.")
        ELSE <<>>

\* The checks of end_job in the order the handler makes them: the error of
\* the first one that fails, or the empty dict when all pass
end_job_rejection(session, arguments) ==
    LET plan_steps == Get(session, "plan_steps", <<>>)
        completed_steps == Get(session, "completed_steps", <<>>)
        agentreadme_content == Get(arguments, "agentreadme_content", "")
    IN  IF session["state"] \notin {IN_PROGRESS}
        THEN create_error_response("WORKFLOW_VIOLATION",
                 "Cannot end job without completing work. Current state: "
                     \o session["state"])
        ELSE IF Len(Get(session, "progress", <<>>)) = 0
        THEN create_error_response("WORKFLOW_VIOLATION",
                 "Cannot end job without any completed work reported.")
        ELSE IF plan_incomplete(plan_steps, completed_steps)
        THEN create_error_response("WORKFLOW_VIOLATION",
                 "Cannot end job with incomplete plan. Completed "
                     \o str_int(Len(completed_steps)) \o "/"
                     \o str_int(Len(plan_steps)) \o " steps.")
        ELSE IF agentreadme_content = "" \/ Len(strip(agentreadme_content)) < MinReadmeLen
        THEN create_error_response("MISSING_AGENTREADME",
                 "You must provide the complete agentreadme.md file content.")
        ELSE <<>>

\* an end_job that leaves the finished session current
keep_current_session(st) == st

clear_current_session(st) == [st EXCEPT !.current_session_id = None]

\* end_job once every check has passed
archive_session(st, arguments) ==
    LET session == current_session(st)
        plan_steps == Get(session, "plan_steps", <<>>)
        completed_steps == Get(session, "completed_steps", <<>>)
        summary == Get(arguments, "summary", "")
        agentreadme_content == Get(arguments, "agentreadme_content", "")
        session1 == Put(Put(Put(session,
                        "summary", summary),
                        "agentreadme_content", agentreadme_content),
                        "completed_at", Now)
        st1 == store_session(st, session1)
        st2 == write_text(st1, agentreadme_path, agentreadme_content)
        st3 == mkdir_parents(st2, history_dir)
        history_path == history_file(st.current_session_id)
        st4 == [st3 EXCEPT !.history = Put(@, history_path, [json |-> session1])]
    IN  IF is_dir(st1, agentreadme_path)
        THEN Raised(st1, "IsADirectoryError", {}, {})
        ELSE IF is_file(st2, history_dir)
        THEN Raised(st2, "FileExistsError", {}, {agentreadme_path})
        ELSE IF blocked_by_file(st2, history_dir)
        THEN Raised(st2, "NotADirectoryError", {}, {agentreadme_path})
        ELSE IF is_dir(st3, history_path)
        THEN Raised(st3, "IsADirectoryError", {}, {agentreadme_path})
        ELSE Returned(
            clear_current_session(st4),
            [status |-> "job_completed",
             session_id |-> st.current_session_id,
             summary |-> summary,
             steps_completed |-> Len(completed_steps),
             total_steps |-> Len(plan_steps),
             agentreadme_updated |-> agentreadme_path,
             history_saved |-> history_path],
            {}, {agentreadme_path, history_path})

\* an end_job that stores the summary before it checks anything
handle_end_job_eager(st, arguments) ==
    IF no_session(st)
    THEN Returned(st, create_error_response("WORKFLOW_VIOLATION",
                          "No active work session. Call start_work first."), {}, {})
    ELSE LET rejection == end_job_rejection(current_session(st), arguments)
             stored == store_session(st, Put(current_session(st), "summary",
                                             Get(arguments, "summary", "")))
         IN  IF "error" \in DOMAIN rejection
             THEN Returned(stored, rejection, {}, {})
             ELSE archive_session(st, arguments)

handle_end_job(st, arguments) ==
    IF no_session(st)
    THEN Returned(st, create_error_response("WORKFLOW_VIOLATION",
                          "No active work session. Call start_work first."), {}, {})
    ELSE LET rejection == end_job_rejection(current_session(st), arguments)
         IN  IF "error" \in DOMAIN rejection
             THEN Returned(st, rejection, {}, {})
             ELSE archive_session(st, arguments)

(***************************************************************************)
(* str.splitlines                                                          *)
(***************************************************************************)

RECURSIVE find_break(_, _)
find_break(s, i) ==
    IF i > Len(s) THEN 0
    ELSE IF CharAt(s, i) \in {"\n", "\r", "\f"} THEN i
    ELSE find_break(s, i + 1)

RECURSIVE splitlines(_)
splitlines(s) ==
    IF s = "" THEN <<>>
    ELSE LET i == find_break(s, 1)
             n == IF i < Len(s) /\ SubSeq(s, i, i + 1) = "\r\n" THEN 2 ELSE 1
             \* the end of the first line break at or after the middle of s
             j == IF Len(s) < 2 THEN 0 ELSE find_break(s, Len(s) \div 2)
             m == IF j # 0 /\ j < Len(s) /\ SubSeq(s, j, j + 1) = "\r\n"
                  THEN j + 1 ELSE j
         IN  IF i = 0 THEN <<s>>
             ELSE IF m # 0 /\ m < Len(s)
             THEN splitlines(SubSeq(s, 1, m)) \o splitlines(SubSeq(s, m + 1, Len(s)))
             ELSE <<SubSeq(s, 1, i - 1)>> \o splitlines(SubSeq(s, i + n, Len(s)))

(***************************************************************************)
(* Document-store tools: read_file, write_file, append_file                *)
(***************************************************************************)
non_doc_extensions ==
    {".py", ".js", ".ts", ".java", ".cpp", ".c", ".h", ".go", ".rs",
     ".exe", ".bin", ".so", ".dll"}

invalid_path(message) == create_error_response("INVALID_PATH", message)

execution_error(message) == create_error_response("EXECUTION_ERROR", message)

handle_read_file(st, arguments) ==
    LET path == Get(arguments, "path", "")
        e == ensure_docs_path(path)
    IN  IF is_alias(path)
        THEN IF ~exists(st, agentreadme_path)
             THEN Returned(st, create_error_response("FILE_NOT_FOUND",
                                   "File not found: " \o path), {}, {})
             ELSE IF is_dir(st, agentreadme_path)
             THEN Returned(st, execution_error("Error reading file: IsADirectoryError"),
                           {}, {})
             ELSE LET content == read_text(st, agentreadme_path)
                  IN  Returned(st,
                          [path |-> path, content |-> content, size |-> Len(content)],
                          {agentreadme_path}, {})
        ELSE IF ~e.ok
        THEN Returned(st, invalid_path(e.message), {}, {})
        ELSE IF ~exists(st, e.path)
        THEN Returned(st, create_error_response("FILE_NOT_FOUND",
                              "File not found: " \o path), {}, {})
        ELSE IF is_dir(st, e.path)
        THEN Returned(st, invalid_path("Path is a directory, not a file: " \o path), {}, {})
        ELSE LET content == read_text(st, e.path)
             IN  Returned(st,
                     [path |-> path, content |-> content, size |-> Len(content)],
                     {e.path}, {})

\* the health check of write_file: line_count > 300
too_long_at_limit(line_count) == line_count >= MaxLines

too_long(line_count) == line_count > MaxLines

handle_write_file(st, arguments) ==
    LET path == Get(arguments, "path", "")
        content == Get(arguments, "content", "")
        e == ensure_docs_path(path)
    IN  IF is_alias(path)
        THEN IF is_dir(st, agentreadme_path)
             THEN Returned(st, execution_error("Error writing file: IsADirectoryError"),
                           {}, {})
             ELSE Returned(write_text(st, agentreadme_path, content),
                      [path |-> path, status |-> "written", size |-> Len(content)],
                      {}, {agentreadme_path})
        ELSE IF ~e.ok
        THEN Returned(st, invalid_path(e.message), {}, {})
        ELSE
        LET file_path == e.path
            file_extension == lower(suffix(file_path))
            warnings0 ==
                IF file_extension \in non_doc_extensions
                THEN <<"WARNING: You are writing a " \o file_extension
                         \o " file to the docs/ directory.">>
                ELSE <<>>
            st1 == mkdir_parents(st, parent(file_path))
            line_count == Len(splitlines(content))
            warnings ==
                IF too_long(line_count)
                THEN Append(warnings0, "File is too long (" \o str_int(line_count)
                                           \o " lines).")
                ELSE warnings0
            result == [path |-> path, status |-> "written",
                       size |-> Len(content), lines |-> line_count]
        IN  IF blocked_by_file(st, parent(file_path))
            THEN Returned(st, execution_error("Error writing file: NotADirectoryError"),
                          {}, {})
            ELSE IF is_dir(st1, file_path)
            THEN Returned(st1, execution_error("Error writing file: IsADirectoryError"),
                          {}, ancestors_and_self(parent(file_path)) \ st.dirs)
            ELSE Returned(write_text(st1, file_path, content),
                     IF Len(warnings) > 0 THEN Put(result, "warnings", warnings) ELSE result,
                     {}, {file_path} \cup (ancestors_and_self(parent(file_path)) \ st.dirs))

handle_append_file(st, arguments) ==
    LET path == Get(arguments, "path", "")
        content == Get(arguments, "content", "")
        e == ensure_docs_path(path)
    IN  IF is_alias(path)
        THEN IF is_dir(st, agentreadme_path)
             THEN Returned(st, execution_error("Error appending to file: IsADirectoryError"),
                           {}, {})
             ELSE LET st1 == IF exists(st, agentreadme_path)
                             THEN write_text(st, agentreadme_path,
                                      read_text(st, agentreadme_path) \o "\n" \o content)
                             ELSE write_text(st, agentreadme_path, content)
                  IN  Returned(st1,
                          [path |-> path, status |-> "appended",
                           appended_size |-> Len(content)],
                          IF exists(st, agentreadme_path) THEN {agentreadme_path} ELSE {},
                          {agentreadme_path})
        ELSE IF ~e.ok
        THEN Returned(st, invalid_path(e.message), {}, {})
        ELSE
        LET file_path == e.path
            file_extension == lower(suffix(file_path))
            warnings0 ==
                IF file_extension \in non_doc_extensions
                THEN <<"WARNING: You are appending to a " \o file_extension
                         \o " file in the docs/ directory.">>
                ELSE <<>>
        IN  IF ~exists(st, file_path)
            THEN Returned(st, create_error_response("FILE_NOT_FOUND",
                                  "Cannot append to non-existent file: " \o path), {}, {})
            ELSE IF is_dir(st, file_path)
            THEN Returned(st, execution_error("Error appending to file: IsADirectoryError"),
                          {}, {})
            ELSE
            LET existing_content == read_text(st, file_path)
                st1 == write_text(st, file_path, existing_content \o "\n" \o content)
                final_size == Len(st1.files[file_path])
                line_count == Len(splitlines(read_text(st1, file_path)))
                warnings ==
                    IF line_count > MaxLines
                    THEN Append(warnings0, "File is too long (" \o str_int(line_count)
                                               \o " lines).")
                    ELSE warnings0
                result == [path |-> path, status |-> "appended",
                           appended_size |-> Len(content),
                           total_size |-> final_size, total_lines |-> line_count]
            IN  Returned(st1,
                    IF Len(warnings) > 0 THEN Put(result, "warnings", warnings) ELSE result,
                    {file_path}, {file_path})

(***************************************************************************)
(* Document-store tools: list_files, search_files                          *)
(***************************************************************************)
\* str comparison, by code point, over the characters path names are made of
RECURSIVE str_lt(_, _)
str_lt(a, b) ==
    LET code_points ==
            " #$%&()*+,-./0123456789:;<=>?@ABCDEFGHIJKLMNOPQRSTUVWXYZ[]^_abcdefghijklmnopqrstuvwxyz{|}~"
        ord(c) == index_in(c, code_points, 1)
    IN  IF b = "" THEN FALSE
        ELSE IF a = "" THEN TRUE
        ELSE IF CharAt(a, 1) = CharAt(b, 1)
             THEN str_lt(SubSeq(a, 2, Len(a)), SubSeq(b, 2, Len(b)))
        ELSE ord(CharAt(a, 1)) < ord(CharAt(b, 1))

\* sorted(dir_path.iterdir()): the entries share their parent, so the order
\* of the paths is the order of their names
RECURSIVE sorted(_)
sorted(paths) ==
    IF paths = {} THEN <<>>
    ELSE LET first == CHOOSE x \in paths :
                          \A y \in paths : x = y \/ str_lt(name_of(x), name_of(y))
         IN  <<first>> \o sorted(paths \ {first})

all_paths(st) == (DOMAIN st.files) \cup st.dirs \cup (DOMAIN st.history)

iterdir(st, dir_path) == {p \in all_paths(st) : p # dir_path /\ parent(p) = dir_path}

is_under_docs(p) == is_relative_to(Path(p), Path(docs_dir))

relative_to_docs(p) == path_str(relative_to(Path(p), Path(docs_dir)))

RECURSIVE listing(_, _, _)
listing(st, items, want_dirs) ==
    IF Len(items) = 0 THEN <<>>
    ELSE LET item == Head(items)
             more == listing(st, Tail(items), want_dirs)
         IN  IF want_dirs
             THEN (IF is_dir(st, item) THEN <<relative_to_docs(item)>> ELSE <<>>) \o more
             ELSE (IF is_dir(st, item) THEN <<>>
                   ELSE <<[path |-> relative_to_docs(item),
                           size |-> IF item \in DOMAIN st.files
                                    THEN Len(st.files[item]) ELSE 0]>>)
                  \o more

\* a listing that creates the directory it does not find
directory_not_found_mkdir(st, path, dir_path) ==
    Returned(mkdir_parents(st, dir_path),
             [path |-> path, directories |-> <<>>, files |-> <<>>,
              file_count |-> 0, directory_count |-> 0],
             {dir_path}, {})

directory_not_found(st, path, dir_path) ==
    Returned(st, create_error_response("FILE_NOT_FOUND",
                     "Directory not found: " \o path), {}, {})

handle_list_files(st, arguments) ==
    LET path == Get(arguments, "path", "")
        e == ensure_docs_path(path)
    IN  IF ~e.ok
        THEN Returned(st, invalid_path(e.message), {}, {})
        ELSE IF ~exists(st, e.path)
        THEN directory_not_found(st, path, e.path)
        ELSE IF ~is_dir(st, e.path)
        THEN Returned(st, invalid_path("Path is not a directory: " \o path), {}, {})
        ELSE
        LET items == sorted(iterdir(st, e.path))
            directories == listing(st, items, TRUE)
            files_ == listing(st, items, FALSE)
            result == [path |-> path, directories |-> directories, files |-> files_,
                       file_count |-> Len(files_), directory_count |-> Len(directories)]
        IN  IF Len(items) > 0 /\ ~is_under_docs(items[1])
            THEN Returned(st, invalid_path("ValueError: " \o items[1]
                                  \o " is not in the subpath of " \o docs_dir),
                          {e.path}, {})
            ELSE Returned(st,
                     IF Len(files_) > MaxDirFiles
                     THEN Put(result, "warnings",
                              <<"Directory has too many files (" \o str_int(Len(files_))
                                    \o " files).">>)
                     ELSE result,
                     {e.path}, {})

RECURSIVE contains(_, _)
contains(haystack, needle) ==
    \/ startswith(haystack, needle)
    \/ (haystack # "" /\ contains(SubSeq(haystack, 2, Len(haystack)), needle))

endswith(s, tail) ==
    /\ Len(tail) <= Len(s)
    /\ SubSeq(s, Len(s) - Len(tail) + 1, Len(s)) = tail

RECURSIVE matching_lines(_, _, _, _)
matching_lines(file, lines, line_num, query) ==
    IF Len(lines) = 0 THEN <<>>
    ELSE (IF contains(lower(Head(lines)), lower(query))
          THEN <<[file |-> file, line |-> line_num, text |-> strip(Head(lines))]>>
          ELSE <<>>)
         \o matching_lines(file, Tail(lines), line_num + 1, query)

search_in_file_zero_based(st, file_path, query) ==
    IF file_path \notin DOMAIN st.files THEN <<>>
    ELSE LET lines == splitlines(read_text(st, file_path))
         IN  IF is_under_docs(file_path)
             THEN matching_lines(relative_to_docs(file_path), lines, 0, query)
             ELSE <<>>

\* search_in_file: an exception (a directory, a history record that is not
\* text the model holds, a path outside docs_dir at the first match) is
\* logged and the file contributes nothing
search_in_file(st, file_path, query) ==
    IF file_path \notin DOMAIN st.files THEN <<>>
    ELSE LET lines == splitlines(read_text(st, file_path))
         IN  IF is_under_docs(file_path)
             THEN matching_lines(relative_to_docs(file_path), lines, 1, query)
             ELSE <<>>

RECURSIVE search_in_files(_, _, _, _)
search_in_files(st, scan, extension, query) ==
    IF Len(scan) = 0 THEN <<>>
    ELSE (IF endswith(name_of(Head(scan)), extension)
          THEN search_in_file(st, Head(scan), query)
          ELSE <<>>)
         \o search_in_files(st, Tail(scan), extension, query)

\* the files a recursive search below dir_path reads: rglob("*.md"),
\* rglob("*.txt") and rglob("*.json")

rglob_files(st, dir_path) ==
    {p \in all_paths(st) :
        /\ p # dir_path
        /\ dir_path \in ancestors_and_self(p)
        /\ p \in DOMAIN st.files
        /\ \E x \in {".md", ".txt", ".json"} : endswith(name_of(p), x)}

\* scan is the order in which rglob walks the files below the search path;
\* the operating system chooses it
handle_search_files(st, arguments, scan) ==
    LET query == Get(arguments, "query", "")
        path == Get(arguments, "path", "")
        e == ensure_docs_path(path)
    IN  IF ~e.ok
        THEN Returned(st, invalid_path(e.message), {}, {})
        ELSE IF ~exists(st, e.path)
        THEN Returned(st, create_error_response("FILE_NOT_FOUND",
                              "Search path not found: " \o path), {}, {})
        ELSE
        LET results ==
                IF is_file(st, e.path)
                THEN search_in_file(st, e.path, query)
                ELSE search_in_files(st, scan, ".md", query)
                     \o search_in_files(st, scan, ".txt", query)
                     \o search_in_files(st, scan, ".json", query)
        IN  Returned(st,
                [query |-> query, search_path |-> path,
                 results |-> results, total_matches |-> Len(results)],
                IF is_file(st, e.path) THEN {e.path} ELSE rglob_files(st, e.path),
                {})

RECURSIVE orders(_)
orders(S) ==
    IF S = {} THEN {<<>>}
    ELSE UNION {{<<x>> \o rest : rest \in orders(S \ {x})} : x \in S}

scan_orders(st, arguments) ==
    LET e == ensure_docs_path(Get(arguments, "path", ""))
    IN  IF e.ok /\ is_dir(st, e.path) THEN orders(rglob_files(st, e.path)) ELSE {<<>>}

(***************************************************************************)
(* The server of server.py.  AgentHandoffServer keeps its own sessions and *)
(* its own handlers behind one dispatcher, call_tool; it shares no code    *)
(* with the two handler classes above.  _ensure_docs_path,                 *)
(* _create_error_response, _handle_read_file and _handle_search_files are  *)
(* line for line those of UtilityToolsHandler.                             *)
(***************************************************************************)
server_config_dir == project_root \o "/.agent-handoff"

server_history_dir == server_config_dir \o "/history"

no_active_session ==
    create_error_response("WORKFLOW_VIOLATION",
                          "No active work session. Call start_work first.")

server_handle_start_work(st, arguments) ==
    LET user_goal == Get(arguments, "user_goal", "")
        session_id == uuid4(st.uuid_drawn + 1)
        st1 == [st EXCEPT
                  !.uuid_drawn = @ + 1,
                  !.current_session_id = session_id,
                  !.active_sessions = Put(@, session_id,
                        [state |-> WORK_STARTED,
                         user_goal |-> user_goal,
                         started_at |-> Now,
                         plan |-> None,
                         progress |-> <<>>])]
        present == exists(st1, agentreadme_path)
    IN  IF present /\ is_dir(st1, agentreadme_path)
        THEN Raised(st1, "IsADirectoryError", {}, {})
        ELSE Returned(st1,
                [session_id |-> session_id,
                 status |-> "work_started",
                 user_goal |-> user_goal,
                 agent_readme_content |->
                     IF present THEN read_text(st1, agentreadme_path) ELSE "",
                 instruction |->
                     "Next step: Call plan_setup tool with your development plan"],
                IF present THEN {agentreadme_path} ELSE {},
                {})

server_handle_plan_setup(st, arguments) ==
    IF no_session(st)
    THEN Returned(st, no_active_session, {}, {})
    ELSE LET session == current_session(st)
             plan == Get(arguments, "plan", "")
         IN  IF session["state"] # WORK_STARTED
             THEN Returned(st, create_error_response("WORKFLOW_VIOLATION",
                                   "Invalid state for plan_setup. Current state: "
                                       \o session["state"]), {}, {})
             ELSE Returned(
                      store_session(st, Put(Put(session, "plan", plan),
                                            "state", PLAN_SUBMITTED)),
                      [status |-> "plan_accepted",
                       session_id |-> st.current_session_id,
                       plan |-> plan,
                       instruction |-> "Plan recorded. Begin implementation and use proceed tool to report progress."],
                      {}, {})

server_handle_proceed(st, arguments) ==
    IF no_session(st)
    THEN Returned(st, no_active_session, {}, {})
    ELSE LET session == current_session(st)
             completed_work == Get(arguments, "completed_work", "")
             progress == Append(session["progress"],
                                [timestamp |-> Now, work |-> completed_work])
         IN  IF session["state"] \notin {PLAN_SUBMITTED, IN_PROGRESS}
             THEN Returned(st, create_error_response("WORKFLOW_VIOLATION",
                                   "Invalid state for proceed. Current state: "
                                       \o session["state"]), {}, {})
             ELSE Returned(
                      store_session(st, Put(Put(session, "progress", progress),
                                            "state", IN_PROGRESS)),
                      [status |-> "progress_recorded",
                       session_id |-> st.current_session_id,
                       completed_work |-> completed_work,
                       instruction |-> "Continue implementation or call end_job when complete"],
                      {}, {})

server_handle_report_issue(st, arguments) ==
    IF no_session(st)
    THEN Returned(st, no_active_session, {}, {})
    ELSE LET session == current_session(st)
             issue_description == Get(arguments, "issue_description", "")
             attempted_solutions == Get(arguments, "attempted_solutions", "")
             issues == Append(Get(session, "issues", <<>>),
                              [timestamp |-> Now,
                               description |-> issue_description,
                               attempted_solutions |-> attempted_solutions])
         IN  Returned(
                 store_session(st, Put(session, "issues", issues)),
                 [status |-> "issue_recorded",
                  session_id |-> st.current_session_id,
                  issue_description |-> issue_description,
                  instruction |-> "Issue logged. Continue with debugging or call proceed when resolved."],
                 {}, {})

\* The session is updated before the history directory is made: a failure
\* of mkdir or open leaves the summary in the session and the session current
server_handle_end_job(st, arguments) ==
    IF no_session(st)
    THEN Returned(st, no_active_session, {}, {})
    ELSE LET summary == Get(arguments, "summary", "")
             agentreadme_content == Get(arguments, "agentreadme_content", "")
             session == Put(Put(current_session(st), "summary", summary),
                            "completed_at", Now)
             st1 == store_session(st, session)
             st2 == mkdir_parents(st1, server_history_dir)
             history_path == server_history_dir \o "/session_" \o st.current_session_id \o ".json"
             st3 == [st2 EXCEPT !.history = Put(@, history_path, [json |-> session])]
         IN  IF is_file(st1, server_history_dir)
             THEN Raised(st1, "FileExistsError", {}, {})
             ELSE IF blocked_by_file(st1, server_history_dir)
             THEN Raised(st1, "NotADirectoryError", {}, {})
             ELSE IF is_dir(st2, history_path)
             THEN Raised(st2, "IsADirectoryError", {},
                         ancestors_and_self(server_history_dir) \ st1.dirs)
             ELSE Returned(
                      clear_current_session(st3),
                      [status |-> "job_completed",
                       session_id |-> st.current_session_id,
                       summary |-> summary,
                       history_saved |-> history_path,
                       instruction |-> "Job completed successfully. Please write the updated agentreadme.md using write_file tool with path '../agentreadme.md' and the provided content."],
                      {},
                      {history_path} \cup (ancestors_and_self(server_history_dir) \ st1.dirs))

server_handle_read_file(st, arguments) == handle_read_file(st, arguments)

server_handle_write_file(st, arguments) ==
    LET path == Get(arguments, "path", "")
        content == Get(arguments, "content", "")
        e == ensure_docs_path(path)
        result == [path |-> path, status |-> "written", size |-> Len(content)]
    IN  IF is_alias(path)
        THEN IF is_dir(st, agentreadme_path)
             THEN Returned(st, execution_error("Error writing file: IsADirectoryError"),
                           {}, {})
             ELSE Returned(write_text(st, agentreadme_path, content), result,
                           {}, {agentreadme_path})
        ELSE IF ~e.ok
        THEN Returned(st, invalid_path(e.message), {}, {})
        ELSE
        LET file_path == e.path
            st1 == mkdir_parents(st, parent(file_path))
        IN  IF blocked_by_file(st, parent(file_path))
            THEN Returned(st, execution_error("Error writing file: NotADirectoryError"),
                          {}, {})
            ELSE IF is_dir(st1, file_path)
            THEN Returned(st1, execution_error("Error writing file: IsADirectoryError"),
                          {}, ancestors_and_self(parent(file_path)) \ st.dirs)
            ELSE Returned(write_text(st1, file_path, content), result,
                     {}, {file_path} \cup (ancestors_and_self(parent(file_path)) \ st.dirs))

server_handle_list_files(st, arguments) ==
    LET path == Get(arguments, "path", "")
        e == ensure_docs_path(path)
    IN  IF ~e.ok
        THEN Returned(st, invalid_path(e.message), {}, {})
        ELSE IF ~exists(st, e.path)
        THEN Returned(st, create_error_response("FILE_NOT_FOUND",
                              "Directory not found: " \o path), {}, {})
        ELSE IF ~is_dir(st, e.path)
        THEN Returned(st, invalid_path("Path is not a directory: " \o path), {}, {})
        ELSE
        LET items == sorted(iterdir(st, e.path))
        IN  IF Len(items) > 0 /\ ~is_under_docs(items[1])
            THEN Returned(st, invalid_path("ValueError: " \o items[1]
                                  \o " is not in the subpath of " \o docs_dir),
                          {e.path}, {})
            ELSE Returned(st,
                     [path |-> path,
                      directories |-> listing(st, items, TRUE),
                      files |-> listing(st, items, FALSE)],
                     {e.path}, {})

server_handle_search_files(st, arguments, scan) ==
    handle_search_files(st, arguments, scan)

\* The branches of call_tool.  There is none for append_file.
dispatch(st, name, arguments, scan) ==
    CASE name = "start_work" -> server_handle_start_work(st, arguments)
      [] name = "plan_setup" -> server_handle_plan_setup(st, arguments)
      [] name = "proceed" -> server_handle_proceed(st, arguments)
      [] name = "report_issue" -> server_handle_report_issue(st, arguments)
      [] name = "end_job" -> server_handle_end_job(st, arguments)
      [] name = "read_file" -> server_handle_read_file(st, arguments)
      [] name = "write_file" -> server_handle_write_file(st, arguments)
      [] name = "list_files" -> server_handle_list_files(st, arguments)
      [] name = "search_files" -> server_handle_search_files(st, arguments, scan)
      [] OTHER -> Returned(st, create_error_response("UNKNOWN_TOOL",
                                   "Unknown tool: " \o name), {}, {})

\* a dispatcher without the except clause
call_tool_uncaught(st, name, arguments, scan) == dispatch(st, name, arguments, scan)

call_tool(st, name, arguments, scan) ==
    LET r == dispatch(st, name, arguments, scan)
    IN  IF r.raised # None
        THEN Returned(r.st,
                 create_error_response("EXECUTION_ERROR",
                     "Error executing tool " \o name \o ": " \o r.raised),
                 r.reads, r.writes)
        ELSE r

(***************************************************************************)
(* Tool calls.  Every action is one call run to completion: the handler's  *)
(* effect on the process and the disk, and the payload it returns.         *)
(***************************************************************************)
Effect(tool, arguments, result) ==
    \E r \in {result} :
        /\ active_sessions' = r.st.active_sessions
        /\ current_session_id' = r.st.current_session_id
        /\ uuid_drawn' = r.st.uuid_drawn
        /\ files' = r.st.files
        /\ dirs' = r.st.dirs
        /\ history' = r.st.history
        /\ response' = [tool |-> tool, arguments |-> arguments, out |-> r.out,
                        raised |-> r.raised, reads |-> r.reads, writes |-> r.writes]

\* A call made while no other call is in flight
Call(tool, arguments, result) ==
    /\ Effect(tool, arguments, result)
    /\ UNCHANGED tasks

\* Arguments the calls are made with
DocGood == "# Handoff: parser done. Next: wire CLI, add tests."
DocPadded == " # Handoff: parser done. Next: wire CLI; add test.\n"

StartWorkArgs == {[user_goal |-> "g"]}

EndJobArgs ==
    {[summary |-> "s", agentreadme_content |-> d] :
        d \in {DocGood, DocPadded,
               "# Handoff\r\nparser done; next wire the CLI and add tests.", ""}}
    \cup {[summary |-> "s"]}

Contents == {"x", "X\r\ny"}

AppendContents == {"\r"}

StartWork ==
    /\ uuid_drawn < MaxSessions
    /\ \E arguments \in StartWorkArgs :
           Call("start_work", arguments, handle_start_work(State, arguments))

PlanSetup ==
    \E arguments \in {[plan_steps |-> json_list(<<"a">>)],
                      [plan_steps |-> json_list(<<"a", "b">>)],
                      [plan_steps |-> json_list(<<>>)],
                      [plan_steps |-> [type |-> "str", value |-> "a"]],
                      <<>>} :
        Call("plan_setup", arguments, handle_plan_setup(State, arguments))

\* How many entries the sessions hold, all together, under a key
RECURSIVE entries_recorded(_, _, _)
entries_recorded(sessions, ids, key) ==
    IF ids = {} THEN 0
    ELSE LET id == CHOOSE x \in ids : TRUE
         IN  Len(Get(sessions[id], key, <<>>))
                 + entries_recorded(sessions, ids \ {id}, key)

Proceed ==
    /\ entries_recorded(active_sessions, DOMAIN active_sessions, "progress") < MaxProgress
    /\ \E arguments \in {[completed_work |-> "w"]} :
           Call("proceed", arguments, handle_proceed(State, arguments))

ReportIssue ==
    /\ entries_recorded(active_sessions, DOMAIN active_sessions, "issues") < MaxIssues
    /\ \E arguments \in {[issue_description |-> "i", attempted_solutions |-> "t"]} :
           Call("report_issue", arguments, handle_report_issue(State, arguments))

EndJob ==
    \E arguments \in EndJobArgs :
        Call("end_job", arguments, handle_end_job(State, arguments))

ReadFile(paths) ==
    \E path \in paths :
        Call("read_file", [path |-> path], handle_read_file(State, [path |-> path]))

WriteFile(paths, contents) ==
    \E path \in paths, content \in contents :
        LET arguments == [path |-> path, content |-> content]
            r == handle_write_file(State, arguments)
        IN  /\ Cardinality(DOMAIN r.st.files) <= MaxFiles
            /\ Call("write_file", arguments, r)

AppendFile(paths, contents) ==
    \E path \in paths, content \in contents :
        LET arguments == [path |-> path, content |-> content]
            r == handle_append_file(State, arguments)
        IN  /\ \A p \in r.writes : Len(r.st.files[p]) <= MaxFileLen
            /\ Call("append_file", arguments, r)

ListFiles(paths) ==
    \E path \in paths :
        Call("list_files", [path |-> path], handle_list_files(State, [path |-> path]))

SearchFiles(paths) ==
    \E path \in paths, query \in {"x"} :
        LET arguments == [query |-> query, path |-> path]
        IN  \E scan \in scan_orders(State, arguments) :
                Call("search_files", arguments,
                     handle_search_files(State, arguments, scan))

Init ==
    /\ active_sessions = <<>>
    /\ current_session_id = None
    /\ uuid_drawn = 0
    /\ files = <<>>
    /\ dirs = {project_root, docs_dir}
    /\ history = <<>>
    /\ response = [tool |-> None, arguments |-> <<>>, out |-> <<>>,
                   raised |-> None, reads |-> {}, writes |-> {}]
    /\ tasks = <<>>

\* The workflow tools, with the document-store tools addressing the handoff
\* document through its aliases
Next ==
    \/ StartWork
    \/ PlanSetup
    \/ Proceed
    \/ ReportIssue
    \/ EndJob

Spec == Init /\ [][Next]_vars

\* The workflow tools with a caller that keeps calling proceed: proceed is
\* called until the plan of the current session is completed and once more
LiveProceed ==
    /\ IF no_session(State) THEN TRUE
       ELSE IF "plan_steps" \notin DOMAIN current_session(State) THEN TRUE
       ELSE Len(current_session(State)["progress"])
                <= Len(current_session(State)["plan_steps"])
    /\ \E arguments \in {[completed_work |-> "w"]} :
           Call("proceed", arguments, handle_proceed(State, arguments))

LiveStartWork ==
    /\ uuid_drawn < MaxLiveSessions
    /\ \E arguments \in StartWorkArgs :
           Call("start_work", arguments, handle_start_work(State, arguments))

LivePlanSetup ==
    \E plan \in {<<"a">>, <<"a", "b">>} :
        Call("plan_setup", [plan_steps |-> json_list(plan)],
             handle_plan_setup(State, [plan_steps |-> json_list(plan)]))

LiveEndJob ==
    \E arguments \in {[summary |-> "s", agentreadme_content |-> DocGood],
                       [summary |-> "s"]} :
        Call("end_job", arguments, handle_end_job(State, arguments))

NextLive ==
    \/ LiveStartWork
    \/ LivePlanSetup
    \/ LiveProceed
    \/ ReportIssue
    \/ LiveEndJob

SpecLive == Init /\ [][NextLive]_vars /\ WF_vars(LiveProceed)

\* The document-store tools over sandboxed, escaping and alias paths
NextDocs ==
    \/ ReadFile(DocPaths \cup AliasPaths)
    \/ WriteFile(DocPaths \cup AliasPaths, Contents)
    \/ AppendFile(DocPaths \cup AliasPaths, AppendContents)
    \/ ListFiles(DocPaths)
    \/ SearchFiles(DocPaths)

SpecDocs == Init /\ [][NextDocs]_vars

\* The document-store tools over a small tree under the documentation root
StorePaths == {"", "a.md", "sub.md", "sub.md/b.txt", "sub.md/c.PY"}

NextStore ==
    \/ ReadFile(StorePaths)
    \/ WriteFile(StorePaths, Contents)
    \/ AppendFile(StorePaths, AppendContents)
    \/ ListFiles(StorePaths)
    \/ SearchFiles(StorePaths)

SpecStore == Init /\ [][NextStore]_vars

\* The document-store tools called with the aliases of the handoff document
\* and with other spellings of its name
AliasVariants ==
    AliasPaths \cup {"./agentreadme.md", "x/../agentreadme.md",
                     "x/../../agentreadme.md", "/p/agentreadme.md"}

NextAlias ==
    \/ ReadFile(AliasVariants)
    \/ WriteFile(AliasVariants, Contents)
    \/ AppendFile(AliasVariants, AppendContents)
    \/ ListFiles(AliasVariants)
    \/ SearchFiles(AliasVariants)

SpecAlias == Init /\ [][NextAlias]_vars

\* write_file called with documentation and source extensions and with
\* contents on both sides of the 300-line limit
RECURSIVE newlines(_)
newlines(n) ==
    IF n = 0 THEN ""
    ELSE IF n = 1 THEN "\n"
    ELSE newlines(n \div 2) \o newlines(n - n \div 2)

WritePaths == {"x.md", "x.py", "d", "d/y.CPP"}

NextWrite ==
    \/ WriteFile(WritePaths, {"print(1)", newlines(MaxLines), newlines(MaxLines + 1)})
    \/ ReadFile(WritePaths)

SpecWrite == Init /\ [][NextWrite]_vars

\* The project directories a server can be started in: a fresh project, one
\* where agentreadme.md is a directory, one where a regular file has the
\* name of the configuration directory
FreshProject == [files |-> <<>>, dirs |-> {project_root, docs_dir}]

HandoffIsDirectory == [files |-> <<>>, dirs |-> {project_root, docs_dir, agentreadme_path}]

ConfigIsFile(config) == [files |-> (config :> "x"), dirs |-> {project_root, docs_dir}]

InitIn(layouts) ==
    /\ active_sessions = <<>>
    /\ current_session_id = None
    /\ uuid_drawn = 0
    /\ \E layout \in layouts : files = layout.files /\ dirs = layout.dirs
    /\ history = <<>>
    /\ response = [tool |-> None, arguments |-> <<>>, out |-> <<>>,
                   raised |-> None, reads |-> {}, writes |-> {}]
    /\ tasks = <<>>

\* The calls a client makes through the dispatcher: the tools of the
\* catalog, with and without their required arguments, and a name the
\* catalog does not have

CallTool ==
    \E call \in {[name |-> "start_work", arguments |-> [user_goal |-> "g"]],
                 [name |-> "plan_setup", arguments |-> [plan |-> "p"]],
                 [name |-> "proceed", arguments |-> [completed_work |-> "w"]],
                 [name |-> "report_issue", arguments |-> [issue_description |-> "i"]],
                 [name |-> "end_job", arguments |-> [summary |-> "s", agentreadme_content |-> DocGood]],
                 [name |-> "end_job", arguments |-> <<>>],
                 [name |-> "read_file", arguments |-> [path |-> "a.md"]],
                 [name |-> "write_file", arguments |-> [path |-> "a.md", content |-> "x"]],
                 [name |-> "append_file", arguments |-> [path |-> "a.md", content |-> "x"]],
                 [name |-> "list_files", arguments |-> [path |-> ""]],
                 [name |-> "search_files", arguments |-> [query |-> "x", path |-> ""]],
                 [name |-> "delete_file", arguments |-> [path |-> "a.md"]]} :
        \E scan \in (IF call.name = "search_files"
                     THEN scan_orders(State, call.arguments) ELSE {<<>>}) :
            /\ call.name = "start_work" => uuid_drawn < MaxServerSessions
            /\ call.name \in {"proceed", "report_issue"} =>
                   entries_recorded(active_sessions, DOMAIN active_sessions, "progress")
                     + entries_recorded(active_sessions, DOMAIN active_sessions, "issues")
                         < MaxServerEntries
            /\ \E r \in {call_tool(State, call.name, call.arguments, scan)} :
                   /\ Cardinality(DOMAIN r.st.files) <= MaxFiles
                   /\ Call(call.name, call.arguments, r)

\* The workflow tools in every project directory
SpecFaults ==
    InitIn({FreshProject, HandoffIsDirectory, ConfigIsFile(config_dir)}) /\ [][Next]_vars

\* end_job in a process that is stopped part-way: done of its two disk
\* writes have happened, in the order the handler makes them, and the
\* process holds what it held at that moment
end_job_writes_history_first == <<"history", "agentreadme">>

end_job_writes == <<"agentreadme", "history">>

RECURSIVE apply_writes(_, _, _, _)
apply_writes(st, session, arguments, todo) ==
    IF Len(todo) = 0 THEN st
    ELSE LET st1 == IF Head(todo) = "agentreadme"
                    THEN write_text(st, agentreadme_path,
                                    Get(arguments, "agentreadme_content", ""))
                    ELSE [mkdir_parents(st, history_dir) EXCEPT
                             !.history = Put(@, history_file(st.current_session_id),
                                             [json |-> session])]
         IN  apply_writes(st1, session, arguments, Tail(todo))

running == response.raised # "Stopped"

EndJobStopped ==
    /\ running
    /\ \E arguments \in EndJobArgs, done \in 0..Len(end_job_writes) :
           \E r \in {handle_end_job(State, arguments)} :
               /\ r.raised = None
               /\ "error" \notin DOMAIN r.out
               /\ LET session1 == Put(Put(Put(current_session(State),
                                       "summary", Get(arguments, "summary", "")),
                                       "agentreadme_content",
                                       Get(arguments, "agentreadme_content", "")),
                                       "completed_at", Now)
                      st1 == store_session(State, session1)
                      stopped == Raised(apply_writes(st1, session1, arguments,
                                                     SubSeq(end_job_writes, 1, done)),
                                        "Stopped", {}, {})
                  IN  Call("end_job", arguments, stopped)

NextCrash ==
    \/ running /\ StartWork
    \/ running /\ PlanSetup
    \/ running /\ Proceed
    \/ running /\ EndJob
    \/ EndJobStopped

\* The workflow tools in every project directory, in a process that can be
\* stopped while end_job runs
SpecCrash ==
    InitIn({FreshProject, HandoffIsDirectory, ConfigIsFile(config_dir)})
        /\ [][NextCrash]_vars

NextServer == CallTool

SpecServer ==
    InitIn({FreshProject, ConfigIsFile(server_config_dir)}) /\ [][NextServer]_vars

(***************************************************************************)
(* agent-handoff init, run in the project directory.  The texts it writes  *)
(* are stood for by their first line.                                      *)
(***************************************************************************)

init_agentreadme_path == project_root \o "/.agent-handoff/agentreadme.md"

init_files ==
    (init_agentreadme_path :> "# Agent README\n")
    @@ (project_root \o "/.agent-handoff/mcp_server.py" :> "#!/usr/bin/env python3\n")
    @@ (docs_dir \o "/01_Goals_and_Status/README.md" :> "# 01\n")
    @@ (docs_dir \o "/02_Architecture_and_Usage/README.md" :> "# 02\n")
    @@ (docs_dir \o "/03_History_and_Lessons/README.md" :> "# 03\n")
    @@ (docs_dir \o "/04_User_Facing/README.md" :> "# 04\n")
    @@ (project_root \o "/.agent-handoff/config.yaml" :> "# Agent-Handoff\n")

RECURSIVE write_missing(_, _)
write_missing(st, paths) ==
    IF paths = {} THEN st
    ELSE LET p == CHOOSE x \in paths : TRUE
             st1 == IF exists(st, p) THEN st ELSE write_text(st, p, init_files[p])
         IN  write_missing(st1, paths \ {p})

\* confirmed is the answer to "initialise again?"; the project has no .git
init(st, confirmed) ==
    IF exists(st, project_root \o "/.agent-handoff") /\ ~confirmed
    THEN st
    ELSE LET created == {docs_dir \o "/01_Goals_and_Status",
                         docs_dir \o "/02_Architecture_and_Usage",
                         docs_dir \o "/03_History_and_Lessons",
                         docs_dir \o "/04_User_Facing",
                         project_root \o "/.agent-handoff/history"}
         IN  write_missing([st EXCEPT !.dirs = @ \cup UNION {ancestors_and_self(d) : d \in created}],
                           DOMAIN init_files)

CliInit ==
    \E confirmed \in BOOLEAN :
        \E st \in {init(State, confirmed)} :
            /\ files' = st.files
            /\ dirs' = st.dirs
            /\ response' = [tool |-> "init", arguments |-> <<>>, out |-> <<>>,
                            raised |-> None, reads |-> {}, writes |-> {}]
            /\ UNCHANGED <<active_sessions, current_session_id, uuid_drawn, history, tasks>>

\* A project set up with init and then worked on through the tools
NextProject ==
    \/ CliInit
    \/ StartWork
    \/ PlanSetup
    \/ Proceed
    \/ EndJob
    \/ ReadFile(AliasPaths)

SpecProject == Init /\ [][NextProject]_vars

(***************************************************************************)
(* Concurrent calls.  The MCP server starts one coroutine per request on   *)
(* one event loop; a coroutine runs until it awaits something that is not  *)
(* ready, and only then can another one run.  A task is a call the loop    *)
(* has accepted: pc is where its coroutine stands, session_id the session  *)
(* it bound to its local variable, dispatched_in the session that was      *)
(* current when the request arrived.                                       *)
(***************************************************************************)
\* an end_job that awaits between its last check and its first write
suspension_points_after_checks(tool) ==
    IF tool = "end_job" THEN {"after_checks"} ELSE {}

\* the await expressions in the body of a handler: there are none
suspension_points(tool) == {}

remove_task(queue, i) == SubSeq(queue, 1, i - 1) \o SubSeq(queue, i + 1, Len(queue))

Dispatch ==
    /\ Len(tasks) < MaxTasks
    /\ \E call \in {[tool |-> "start_work", arguments |-> [user_goal |-> "g"]],
                    [tool |-> "plan_setup", arguments |-> [plan_steps |-> json_list(<<"a", "b">>)]],
                    [tool |-> "proceed", arguments |-> [completed_work |-> "w"]],
                    [tool |-> "end_job", arguments |-> [summary |-> "s", agentreadme_content |-> DocGood]]} :
           tasks' = Append(tasks, [tool |-> call.tool, arguments |-> call.arguments,
                                   pc |-> "start", session_id |-> None,
                                   dispatched_in |-> current_session_id])
    /\ UNCHANGED <<active_sessions, current_session_id, uuid_drawn, files, dirs,
                   history, response>>

RunTask ==
    \E i \in DOMAIN tasks :
        \E t \in {tasks[i]} :
            /\ t.tool = "start_work" => uuid_drawn < MaxSessions
            /\ t.tool = "proceed" =>
                   entries_recorded(active_sessions, DOMAIN active_sessions, "progress")
                       < MaxProgress
            /\ IF t.pc = "start"
               THEN \E r \in {CASE t.tool = "start_work" -> handle_start_work(State, t.arguments)
                                [] t.tool = "plan_setup" -> handle_plan_setup(State, t.arguments)
                                [] t.tool = "proceed" -> handle_proceed(State, t.arguments)
                                [] t.tool = "end_job" -> handle_end_job(State, t.arguments)} :
                        IF /\ "after_checks" \in suspension_points(t.tool)
                           /\ r.raised = None
                           /\ "error" \notin DOMAIN r.out
                        THEN /\ tasks' = [tasks EXCEPT ![i].pc = "after_checks",
                                                       ![i].session_id = current_session_id]
                             /\ UNCHANGED <<active_sessions, current_session_id, uuid_drawn,
                                            files, dirs, history, response>>
                        ELSE /\ Effect(t.tool, t.arguments, r)
                             /\ tasks' = remove_task(tasks, i)
               ELSE \* resumed: the checks are behind it, session is a local variable
                    /\ Effect(t.tool, t.arguments,
                              archive_session([State EXCEPT
                                                  !.current_session_id = t.session_id],
                                              t.arguments))
                    /\ tasks' = remove_task(tasks, i)

NextAsync ==
    \/ Dispatch
    \/ RunTask

SpecAsync == Init /\ [][NextAsync]_vars

(***************************************************************************)
(* Properties.  A step whose response' names a tool is a call of that tool *)
(* (a call that changes nothing and returns what the previous call         *)
(* returned is a stuttering step).                                         *)
(***************************************************************************)
failed_with(resp, code) ==
    /\ resp.raised = None
    /\ "error" \in DOMAIN resp.out
    /\ resp.out.error.code = code

has_status(resp, status) ==
    /\ resp.raised = None
    /\ "status" \in DOMAIN resp.out
    /\ resp.out.status = status

session_in(st, state) ==
    IF no_session(st) THEN FALSE ELSE current_session(st)["state"] = state

\* C1: plan_setup succeeds only if the current session is in state STARTED;
\* with no current session, or a current session in any other state, it
\* fails with WORKFLOW_VIOLATION.
C1_PlanSetupOnlyWhenStarted ==
    [][response'.tool = "plan_setup" =>
          /\ has_status(response', "plan_accepted") => session_in(State, WORK_STARTED)
          /\ ~session_in(State, WORK_STARTED)
                => failed_with(response', "WORKFLOW_VIOLATION")]_vars

\* plan_setup has been refused for a session that already reported progress
C1_Witness ==
    /\ response.tool = "plan_setup"
    /\ failed_with(response, "WORKFLOW_VIOLATION")
    /\ session_in(State, IN_PROGRESS)

\* C2 as the specification states it: whenever plan_setup is called twice in
\* a row with no other call in between, the second call fails with
\* WORKFLOW_VIOLATION.
C2_SecondPlanSetupFails ==
    [][response.tool = "plan_setup" /\ response'.tool = "plan_setup"
          => failed_with(response', "WORKFLOW_VIOLATION")]_vars

\* C2 amended: whenever plan_setup is called twice in a row with no other
\* call in between, and the first call was not rejected with INVALID_INPUT,
\* the second call fails with WORKFLOW_VIOLATION.
C2_SecondPlanSetupFailsUnlessInvalidInput ==
    [][(/\ response.tool = "plan_setup"
        /\ ~failed_with(response, "INVALID_INPUT")
        /\ response'.tool = "plan_setup")
          => failed_with(response', "WORKFLOW_VIOLATION")]_vars

\* plan_setup has been refused for a session that holds an accepted plan
\* and has seen no other state-changing call since
C2_Witness ==
    /\ response.tool = "plan_setup"
    /\ failed_with(response, "WORKFLOW_VIOLATION")
    /\ session_in(State, PLAN_SUBMITTED)
    /\ "issues" \notin DOMAIN current_session(State)

\* C3: in a session whose plan has N steps, end_job succeeds only after N
\* successful proceed calls; the k-th successful proceed (k < N) reports
\* steps_completed = k and next_step = the (k+1)-th planned step, and the
\* N-th reports steps_completed = N and a null next_step.
C3_ProceedTicksOneStep ==
    [][/\ has_status(response', "job_completed") =>
            Len(current_session(State)["progress"])
                >= Len(current_session(State)["plan_steps"])
       /\ has_status(response', "progress_recorded") =>
            LET session == current_session(State')
                k == Len(session["progress"])
                N == Len(session["plan_steps"])
            IN  /\ k < N => /\ response'.out.steps_completed = k
                            /\ response'.out.next_step = session["plan_steps"][k + 1]
                /\ k = N => /\ response'.out.steps_completed = N
                            /\ response'.out.next_step = None]_vars

\* the second of two planned steps has been reported and nothing is next
C3_Witness ==
    /\ has_status(response, "progress_recorded")
    /\ response.out.total_steps = 2
    /\ response.out.steps_completed = 2
    /\ response.out.next_step = None

\* C4 as the specification states it, for every path other than the two
\* aliases of the handoff document: a path argument with a ../ segment that
\* resolves outside the documentation root makes read_file, write_file,
\* append_file, list_files and search_files return INVALID_PATH, and the
\* call reads and writes no file.
DocTools == {"read_file", "write_file", "append_file", "list_files", "search_files"}

escapes_docs(path) ==
    /\ contains(path, "../")
    /\ ~is_relative_to(resolve(path_join(Path(docs_dir), Path(path))), Path(docs_dir))

C4_EscapingPathRejected ==
    (/\ response.tool \in DocTools
     /\ ~is_alias(response.arguments.path)
     /\ escapes_docs(response.arguments.path))
        => /\ failed_with(response, "INVALID_PATH")
           /\ response.reads = {}
           /\ response.writes = {}

\* C5: end_job evaluates its preconditions in the order (1) a current
\* session exists, (2) its state is IN_PROGRESS, (3) at least one progress
\* entry is recorded, (4) as many steps are completed as are planned, (5)
\* the handoff document is non-empty and at least 50 characters once
\* stripped; the first one that fails determines the error, so an
\* incomplete plan with a too-short document yields the incomplete-plan
\* WORKFLOW_VIOLATION.
first_unmet(st, arguments) ==
    IF no_session(st) THEN 1
    ELSE LET session == current_session(st)
             document == Get(arguments, "agentreadme_content", "")
         IN  IF session["state"] # IN_PROGRESS THEN 2
             ELSE IF Len(session["progress"]) < 1 THEN 3
             ELSE IF Len(Get(session, "completed_steps", <<>>))
                        # Len(Get(session, "plan_steps", <<>>)) THEN 4
             ELSE IF document = "" \/ Len(strip(document)) < 50 THEN 5
             ELSE 0

reported_unmet(resp) ==
    IF has_status(resp, "job_completed") THEN 0
    ELSE IF failed_with(resp, "MISSING_AGENTREADME") THEN 5
    ELSE IF ~failed_with(resp, "WORKFLOW_VIOLATION") THEN -1
    ELSE LET message == resp.out.error.message
         IN  IF message = "No active work session. Call start_work first." THEN 1
             ELSE IF startswith(message, "Cannot end job without completing work.") THEN 2
             ELSE IF message = "Cannot end job without any completed work reported." THEN 3
             ELSE IF startswith(message, "Cannot end job with incomplete plan.") THEN 4
             ELSE -1

C5_EndJobFirstUnmetPrecondition ==
    [][response'.tool = "end_job" =>
          reported_unmet(response') = first_unmet(State, response'.arguments)]_vars

\* end_job with an unfinished plan and an empty document reported the plan
C5_Witness ==
    /\ response.tool = "end_job"
    /\ Get(response.arguments, "agentreadme_content", "") = ""
    /\ reported_unmet(response) = 4

\* C6: after a successful end_job there is no current session; until the
\* next start_work, plan_setup, proceed, report_issue and end_job all fail
\* with WORKFLOW_VIOLATION; the archived session is never resumed and its
\* record, in memory and in the history, is never changed by a later call.
is_archived(id) == history_file(id) \in DOMAIN history

C6_ArchivedSessionIsFinal ==
    [][/\ has_status(response', "job_completed") => current_session_id' = None
       /\ (/\ current_session_id = None
           /\ response'.tool \in {"plan_setup", "proceed", "report_issue", "end_job"})
             => /\ failed_with(response', "WORKFLOW_VIOLATION")
                /\ current_session_id' = None
       /\ \A id \in DOMAIN active_sessions :
             is_archived(id) =>
                /\ current_session_id' # id
                /\ id \in DOMAIN active_sessions'
                /\ active_sessions'[id] = active_sessions[id]
                /\ history_file(id) \in DOMAIN history'
                /\ history'[history_file(id)] = history[history_file(id)]]_vars

\* proceed has been refused after a session was archived and before the
\* next start_work
C6_Witness ==
    /\ current_session_id = None
    /\ \E id \in DOMAIN active_sessions : is_archived(id)
    /\ response.tool = "proceed"
    /\ failed_with(response, "WORKFLOW_VIOLATION")

\* C7: an end_job that is rejected changes nothing (no session field, no
\* file, no history record, the current session stays current), and when it
\* was rejected for its handoff document, an end_job with a valid document
\* then succeeds.
C7_RejectedEndJobChangesNothing ==
    [][(response'.tool = "end_job" /\ ~has_status(response', "job_completed")) =>
          /\ active_sessions' = active_sessions
          /\ current_session_id' = current_session_id
          /\ files' = files
          /\ dirs' = dirs
          /\ history' = history
          /\ response'.writes = {}
          /\ failed_with(response', "MISSING_AGENTREADME") =>
                has_status(handle_end_job(State', [summary |-> "s",
                                                   agentreadme_content |-> DocGood]),
                           "job_completed")]_vars

\* end_job has been rejected for a document of 49 characters once stripped
C7_Witness ==
    /\ response.tool = "end_job"
    /\ failed_with(response, "MISSING_AGENTREADME")
    /\ Get(response.arguments, "agentreadme_content", "") = DocPadded
    /\ session_in(State, IN_PROGRESS)

\* C8: start_work succeeds from every state; it creates a session with an
\* id no earlier session had, in state STARTED, with empty progress and no
\* plan, and makes it the current session.
C8_StartWorkAlwaysStartsFresh ==
    [][response'.tool = "start_work" =>
          /\ has_status(response', "work_started")
          /\ current_session_id' # None
          /\ current_session_id' = response'.out.session_id
          /\ current_session_id' \notin DOMAIN active_sessions
          /\ current_session_id' \in DOMAIN active_sessions'
          /\ LET session == active_sessions'[current_session_id']
             IN  /\ session["state"] = WORK_STARTED
                 /\ session["progress"] = <<>>
                 /\ session["plan"] = None
                 /\ "plan_steps" \notin DOMAIN session
                 /\ "completed_steps" \notin DOMAIN session]_vars

\* start_work has been called while an earlier session was in progress
C8_Witness ==
    /\ response.tool = "start_work"
    /\ has_status(response, "work_started")
    /\ \E id \in DOMAIN active_sessions :
          /\ id # current_session_id
          /\ active_sessions[id]["state"] = IN_PROGRESS
          /\ ~is_archived(id)

\* C9: a session that stopped being current because start_work was called
\* is never archived and never changed by a later call: every call leaves
\* the record of every session other than the current one as it was, writes
\* no history record for it and never makes it current again, and only
\* start_work adds a session.
C9_OnlyCurrentSessionTouched ==
    [][/\ \A id \in DOMAIN active_sessions :
             id # current_session_id =>
                /\ id \in DOMAIN active_sessions'
                /\ active_sessions'[id] = active_sessions[id]
                /\ is_archived(id) <=> history_file(id) \in DOMAIN history'
                /\ current_session_id' # id
       /\ response'.tool # "start_work" =>
             DOMAIN active_sessions' = DOMAIN active_sessions]_vars

\* a session was abandoned in progress and a later session was archived
C9_Witness ==
    /\ \E id \in DOMAIN active_sessions :
          /\ id # current_session_id
          /\ ~is_archived(id)
          /\ active_sessions[id]["state"] = IN_PROGRESS
    /\ \E id \in DOMAIN active_sessions : is_archived(id)

\* C10 as the specification states it: start_work returns exactly the
\* current content of the handoff document, or the empty string when it
\* does not exist; after a successful end_job with document d, the next
\* start_work returns exactly d.
C10_StartWorkReturnsHandoffDocument ==
    [][response'.tool = "start_work" =>
          /\ response'.out.agent_readme_content =
                IF agentreadme_path \in DOMAIN files
                THEN files[agentreadme_path] ELSE ""
          /\ has_status(response, "job_completed") =>
                response'.out.agent_readme_content
                    = response.arguments.agentreadme_content]_vars

\* C11: proceed succeeds only if a current session exists and is in
\* PLAN_SUBMITTED or IN_PROGRESS; in every other situation it returns
\* WORKFLOW_VIOLATION, records no progress entry and changes no session.
C11_ProceedOnlyWithPlan ==
    [][response'.tool = "proceed" =>
          LET planned == \/ session_in(State, PLAN_SUBMITTED)
                         \/ session_in(State, IN_PROGRESS)
          IN  /\ has_status(response', "progress_recorded") => planned
              /\ ~planned => /\ failed_with(response', "WORKFLOW_VIOLATION")
                             /\ active_sessions' = active_sessions
                             /\ current_session_id' = current_session_id]_vars

\* proceed has been refused for a session that has no plan yet
C11_Witness ==
    /\ response.tool = "proceed"
    /\ failed_with(response, "WORKFLOW_VIOLATION")
    /\ session_in(State, WORK_STARTED)
    /\ current_session(State)["progress"] = <<>>

\* C12: each successful proceed appends exactly one progress entry and sets
\* the state to IN_PROGRESS; when current_step_index < len(plan_steps) it
\* moves exactly the step at that index into completed_steps and increments
\* the index by one, and when the plan is exhausted it records the progress
\* entry but leaves current_step_index and completed_steps unchanged.
C12_ProceedRecordsAndAdvances ==
    [][has_status(response', "progress_recorded") =>
          LET before == current_session(State)
              after == current_session(State')
              index == before["current_step_index"]
              plan == before["plan_steps"]
          IN  /\ current_session_id' = current_session_id
              /\ Len(after["progress"]) = Len(before["progress"]) + 1
              /\ SubSeq(after["progress"], 1, Len(before["progress"]))
                    = before["progress"]
              /\ after["progress"][Len(after["progress"])].work
                    = response'.arguments.completed_work
              /\ after["state"] = IN_PROGRESS
              /\ after["plan_steps"] = plan
              /\ index < Len(plan) =>
                    /\ after["completed_steps"]
                          = Append(before["completed_steps"], plan[index + 1])
                    /\ after["current_step_index"] = index + 1
              /\ index >= Len(plan) =>
                    /\ after["completed_steps"] = before["completed_steps"]
                    /\ after["current_step_index"] = index]_vars

\* a proceed has been recorded after every planned step was completed
C12_Witness ==
    /\ has_status(response, "progress_recorded")
    /\ ~no_session(State)
    /\ Len(current_session(State)["progress"])
          > Len(current_session(State)["plan_steps"])
    /\ current_session(State)["completed_steps"] = current_session(State)["plan_steps"]

\* C13: report_issue succeeds in every state of a current session and fails
\* with WORKFLOW_VIOLATION when there is none; on success it appends exactly
\* one issue entry and leaves state, plan_steps, completed_steps,
\* current_step_index, progress and every other field and session as they
\* were, so no other call is enabled or disabled by it.
C13_ReportIssueOnlyAddsIssue ==
    [][response'.tool = "report_issue" =>
          IF no_session(State)
          THEN /\ failed_with(response', "WORKFLOW_VIOLATION")
               /\ active_sessions' = active_sessions
               /\ current_session_id' = current_session_id
          ELSE LET before == current_session(State)
                   after == current_session(State')
                   issues == Get(before, "issues", <<>>)
               IN  /\ has_status(response', "issue_recorded")
                   /\ current_session_id' = current_session_id
                   /\ DOMAIN active_sessions' = DOMAIN active_sessions
                   /\ DOMAIN after = DOMAIN before \cup {"issues"}
                   /\ \A key \in DOMAIN before \ {"issues"} : after[key] = before[key]
                   /\ Len(after["issues"]) = Len(issues) + 1
                   /\ SubSeq(after["issues"], 1, Len(issues)) = issues
                   /\ after["issues"][Len(issues) + 1].description
                         = response'.arguments.issue_description]_vars

\* an issue has been recorded for a session whose plan is submitted and not
\* started
C13_Witness ==
    /\ has_status(response, "issue_recorded")
    /\ session_in(State, PLAN_SUBMITTED)
    /\ Len(current_session(State)["issues"]) = 1

\* C14: plan_setup called in state STARTED with plan_steps that is empty
\* or not a list fails with INVALID_INPUT and leaves the session in STARTED
\* with no plan stored, so a following plan_setup with a non-empty list of
\* steps is accepted.
C14_MalformedPlanIsRecoverable ==
    [][(/\ response'.tool = "plan_setup"
        /\ session_in(State, WORK_STARTED)
        /\ LET plan_steps == Get(response'.arguments, "plan_steps", json_list(<<>>))
           IN  IF plan_steps.type = "list" THEN Len(plan_steps.value) = 0 ELSE TRUE) =>
          /\ failed_with(response', "INVALID_INPUT")
          /\ active_sessions' = active_sessions
          /\ current_session_id' = current_session_id
          /\ session_in(State', WORK_STARTED)
          /\ "plan_steps" \notin DOMAIN current_session(State')
          /\ has_status(handle_plan_setup(State', [plan_steps |-> json_list(<<"a", "b">>)]),
                        "plan_accepted")]_vars

\* a plan given as a single string has been rejected for a started session
C14_Witness ==
    /\ response.tool = "plan_setup"
    /\ failed_with(response, "INVALID_INPUT")
    /\ "plan_steps" \in DOMAIN response.arguments
    /\ response.arguments.plan_steps.type = "str"
    /\ session_in(State, WORK_STARTED)

\* C15: in every reachable state of a session with a submitted plan,
\* 0 <= current_step_index <= len(plan_steps), whatever number of proceed
\* calls has been made.
C15_StepIndexWithinPlan ==
    \A id \in DOMAIN active_sessions :
        LET session == active_sessions[id]
        IN  "plan_steps" \in DOMAIN session =>
                /\ session["current_step_index"] >= 0
                /\ session["current_step_index"] <= Len(session["plan_steps"])

\* more proceeds than planned steps have been recorded in a session
C15_Witness ==
    \E id \in DOMAIN active_sessions :
        LET session == active_sessions[id]
        IN  /\ "plan_steps" \in DOMAIN session
            /\ Len(session["progress"]) > Len(session["plan_steps"])
            /\ session["current_step_index"] = Len(session["plan_steps"])

\* C16 as the specification states it: in every reachable state of a
\* session with a submitted plan, completed_steps is a strict prefix of
\* plan_steps in the same order (a prefix that is shorter than the plan).
is_prefix(short, long) ==
    /\ Len(short) <= Len(long)
    /\ short = SubSeq(long, 1, Len(short))

C16_CompletedStrictPrefixOfPlan ==
    \A id \in DOMAIN active_sessions :
        LET session == active_sessions[id]
        IN  "plan_steps" \in DOMAIN session =>
                /\ is_prefix(session["completed_steps"], session["plan_steps"])
                /\ session["completed_steps"] # session["plan_steps"]

\* C16 amended: in every reachable state of a session with a submitted
\* plan, completed_steps is a prefix of plan_steps in the same order, namely
\* its first current_step_index steps; it is the whole plan once every step
\* is completed.
C16_CompletedPrefixOfPlan ==
    \A id \in DOMAIN active_sessions :
        LET session == active_sessions[id]
        IN  "plan_steps" \in DOMAIN session =>
                /\ is_prefix(session["completed_steps"], session["plan_steps"])
                /\ Len(session["completed_steps"]) = session["current_step_index"]

\* the first step of a two-step plan is completed and the second is not
C16_Witness ==
    \E id \in DOMAIN active_sessions :
        LET session == active_sessions[id]
        IN  /\ "plan_steps" \in DOMAIN session
            /\ session["plan_steps"] = <<"a", "b">>
            /\ session["completed_steps"] = <<"a">>

\* C17: no session is ever archived (history record written and current
\* pointer cleared by end_job) without at least one progress entry and
\* without a submitted plan whose steps are all completed.
C17_ArchivedOnlyWhenDone ==
    /\ \A path \in DOMAIN history :
          LET session == history[path].json
          IN  /\ Len(session["progress"]) >= 1
              /\ "plan_steps" \in DOMAIN session
              /\ Len(session["plan_steps"]) >= 1
              /\ session["completed_steps"] = session["plan_steps"]
    /\ has_status(response, "job_completed") =>
          /\ current_session_id = None
          /\ response.out.history_saved \in DOMAIN history
          /\ history[response.out.history_saved].json
                = active_sessions[response.out.session_id]

\* a session with a completed two-step plan has just been archived
C17_Witness ==
    /\ has_status(response, "job_completed")
    /\ response.out.total_steps = 2
    /\ response.out.history_saved \in DOMAIN history

\* C18 as the specification states it: for every sandboxed path p accepted
\* by write_file and every content c, write_file(p, c) immediately followed
\* by read_file(p) returns content exactly c.
C18_WriteThenReadReturnsContent ==
    [][(/\ response.tool = "write_file"
        /\ has_status(response, "written")
        /\ ~is_alias(response.arguments.path)
        /\ response'.tool = "read_file"
        /\ response'.arguments.path = response.arguments.path) =>
          /\ response'.raised = None
          /\ "content" \in DOMAIN response'.out
          /\ response'.out.content = response.arguments.content]_vars

\* C19 as the specification states it: if file p exists with content c,
\* append_file(p, c2) succeeds and a following read_file(p) returns exactly
\* c followed by one newline followed by c2.
resolves(path) == IF is_alias(path) THEN TRUE ELSE ensure_docs_path(path).ok

target(path) == IF is_alias(path) THEN agentreadme_path ELSE ensure_docs_path(path).path

C19_AppendThenReadReturnsBoth ==
    [][(/\ response'.tool = "append_file"
        /\ resolves(response'.arguments.path)
        /\ is_file(State, target(response'.arguments.path))) =>
          LET read == [path |-> response'.arguments.path]
              c == handle_read_file(State, read).out.content
              c2 == response'.arguments.content
          IN  /\ has_status(response', "appended")
              /\ handle_read_file(State', read).out.content = c \o "\n" \o c2]_vars

\* C20 as the specification states it: for every path whose target file
\* does not exist, append_file fails with FILE_NOT_FOUND and leaves the
\* filesystem unchanged.
C20_AppendNeedsExistingTarget ==
    [][(/\ response'.tool = "append_file"
        /\ resolves(response'.arguments.path)
        /\ ~exists(State, target(response'.arguments.path))) =>
          /\ failed_with(response', "FILE_NOT_FOUND")
          /\ files' = files
          /\ dirs' = dirs]_vars

\* C21: read_file, list_files and search_files change nothing: after any
\* of them the filesystem and the session store are exactly as before, so
\* list_files("") returns the same file and directory sets after the call
\* as before it.
C21_ReadOnlyToolsChangeNothing ==
    [][response'.tool \in {"read_file", "list_files", "search_files"} =>
          /\ files' = files
          /\ dirs' = dirs
          /\ history' = history
          /\ active_sessions' = active_sessions
          /\ current_session_id' = current_session_id
          /\ handle_list_files(State', [path |-> ""]).out
                 = handle_list_files(State, [path |-> ""]).out]_vars

C21_Witness ==
    /\ response.tool = "list_files"
    /\ response.arguments.path = ""
    /\ "files" \in DOMAIN response.out
    /\ Len(response.out.files) > 0
    /\ Len(response.out.directories) > 0

\* C22: the handoff document is reachable from the document-store tools
\* only through the two exact alias strings "agentreadme.md" and
\* "../agentreadme.md" of read_file, write_file and append_file; a call with
\* any other path string never reads or writes the handoff document, and an
\* alias call never reads or writes a file under the document root.

same_file(p) ==
    /\ (p \in DOMAIN files') = (p \in DOMAIN files)
    /\ (p \in DOMAIN files => files'[p] = files[p])

C22_HandoffOnlyThroughAliases ==
    [][response'.tool \in DocTools =>
          LET path == response'.arguments.path
              touched == response'.reads \cup response'.writes
          IN  IF /\ response'.tool \in {"read_file", "write_file", "append_file"}
                 /\ path \in {"agentreadme.md", "../agentreadme.md"}
              THEN /\ \A p \in touched : ~is_under_docs(p)
                   /\ \A p \in (DOMAIN files) \cup (DOMAIN files') :
                          is_under_docs(p) => same_file(p)
                   /\ dirs' = dirs
              ELSE /\ agentreadme_path \notin touched
                   /\ same_file(agentreadme_path)
                   /\ "content" \in DOMAIN response'.out =>
                          \E p \in DOMAIN files :
                              /\ is_under_docs(p)
                              /\ response'.out.content = read_text(State, p)]_vars

C22_Witness ==
    /\ response.tool = "write_file"
    /\ response.arguments.path = "x/../agentreadme.md"
    /\ has_status(response, "written")
    /\ agentreadme_path \in DOMAIN files
    /\ files[agentreadme_path] # files[docs_dir \o "/agentreadme.md"]

\* C23 as the specification states it: every one of the ten catalog tools
\* is routed by the dispatcher to its handler, and UNKNOWN_TOOL is returned
\* only for names outside the catalog.
C23_CatalogToolsAreRouted ==
    response.tool # None =>
        (failed_with(response, "UNKNOWN_TOOL") <=>
            response.tool \notin {"start_work", "plan_setup", "proceed", "report_issue",
                                  "end_job", "read_file", "write_file", "append_file",
                                  "list_files", "search_files"})

\* C24 as the specification states it: calls issued through the server's
\* dispatcher obey the workflow gating: end_job through the dispatcher
\* returns job_completed only when the current session is IN_PROGRESS with
\* every planned step completed and a handoff document of sufficient
\* length, and a successful end_job writes the handoff document.
C24_DispatcherEndJobIsGated ==
    [][(response'.tool = "end_job" /\ has_status(response', "job_completed")) =>
          LET agentreadme_content == Get(response'.arguments, "agentreadme_content", "")
          IN  /\ ~no_session(State)
              /\ current_session(State)["state"] = IN_PROGRESS
              /\ Get(current_session(State), "completed_steps", <<>>)
                     = Get(current_session(State), "plan_steps", <<>>)
              /\ Len(strip(agentreadme_content)) >= MinReadmeLen
              /\ agentreadme_path \in DOMAIN files'
              /\ files'[agentreadme_path] = translate_on_write(agentreadme_content)]_vars

\* C26 as the specification states it: a tool call that omits a required
\* argument of its declared schema is rejected with INVALID_INPUT before any
\* handler runs, leaving the session store and the filesystem unchanged.
C26_MissingArgumentRejected ==
    [][(LET required_arguments(name) ==
                CASE name = "start_work" -> {"user_goal"}
                  [] name = "plan_setup" -> {"plan"}
                  [] name = "proceed" -> {"completed_work"}
                  [] name = "report_issue" -> {"issue_description"}
                  [] name = "end_job" -> {"summary", "agentreadme_content"}
                  [] name = "read_file" -> {"path"}
                  [] name = "write_file" -> {"path", "content"}
                  [] name = "list_files" -> {}
                  [] name = "search_files" -> {"query"}
                  [] OTHER -> {}
        IN  \E k \in required_arguments(response'.tool) : k \notin DOMAIN response'.arguments) =>
          /\ failed_with(response', "INVALID_INPUT")
          /\ active_sessions' = active_sessions
          /\ current_session_id' = current_session_id
          /\ files' = files
          /\ dirs' = dirs
          /\ history' = history]_vars

\* C27: every tool invocation through the dispatcher returns exactly one
\* payload, holding either the handler's result or an error object, for
\* every tool name and every handler outcome; when a handler raises, the
\* dispatcher returns EXECUTION_ERROR, and it answers the calls that follow.
C27_DispatcherAlwaysAnswers ==
    [][\E scan \in (IF response'.tool = "search_files"
                    THEN scan_orders(State, response'.arguments) ELSE {<<>>}) :
          LET handled == dispatch(State, response'.tool, response'.arguments, scan)
          IN  /\ response'.raised = None
              /\ DOMAIN response'.out # {}
              /\ handled.raised # None => failed_with(response', "EXECUTION_ERROR")
              /\ handled.raised = None => response'.out = handled.out]_vars

C27_Witness ==
    /\ response.tool = "report_issue"
    /\ has_status(response, "issue_recorded")
    /\ "summary" \in DOMAIN active_sessions[current_session_id]

\* C25 as the specification states it: every failure response carries
\* error.code drawn from the closed set UNKNOWN_TOOL, EXECUTION_ERROR,
\* WORKFLOW_VIOLATION, INVALID_INPUT, MISSING_HANDOFF_DOC, FILE_NOT_FOUND,
\* INVALID_PATH; no tool call returns an error object with a code outside
\* this set or without a code.
C25_ErrorCodesFromClosedSet ==
    "error" \in DOMAIN response.out =>
        /\ "code" \in DOMAIN response.out.error
        /\ response.out.error.code \in {"UNKNOWN_TOOL", "EXECUTION_ERROR",
                                        "WORKFLOW_VIOLATION", "INVALID_INPUT",
                                        "MISSING_HANDOFF_DOC", "FILE_NOT_FOUND",
                                        "INVALID_PATH"}

\* C28 as the specification states it: the workflow state machine never
\* raises: start_work, plan_setup, proceed, report_issue and end_job each
\* return a structured result on every path, including when reading the
\* handoff document in start_work or writing the handoff document or the
\* history record in end_job fails.
C28_WorkflowNeverRaises ==
    response.tool \in {"start_work", "plan_setup", "proceed", "report_issue", "end_job"} =>
        /\ response.raised = None
        /\ DOMAIN response.out # {}

\* C29 as the specification states it: read_file on a non-alias path
\* returns INVALID_PATH if the path escapes the root (decided first, whether
\* or not the target exists), otherwise FILE_NOT_FOUND if the target is
\* absent, otherwise INVALID_PATH if the target is a directory, otherwise
\* the file content; none of the error outcomes changes the filesystem.
C29_ReadFileOutcomes ==
    [][(response'.tool = "read_file" /\ ~is_alias(response'.arguments.path)) =>
          LET path == response'.arguments.path
              file == path_str(resolve(path_join(Path(docs_dir), Path(path))))
          IN  /\ files' = files
              /\ dirs' = dirs
              /\ IF escapes_docs(path) THEN failed_with(response', "INVALID_PATH")
                 ELSE IF ~exists(State, file) THEN failed_with(response', "FILE_NOT_FOUND")
                 ELSE IF is_dir(State, file) THEN failed_with(response', "INVALID_PATH")
                 ELSE /\ "content" \in DOMAIN response'.out
                      /\ response'.out.content = read_text(State, file)]_vars

\* C30: search_files returns exactly the (root-relative file, 1-based line
\* number, trimmed line) triples for which the lower-cased query is a
\* substring of the lower-cased line, taken over the single file when the
\* path resolves to a file and otherwise over all files with the extensions
\* .md, .txt and .json recursively under the path; total_matches equals the
\* number of results.
C30_SearchReturnsMatches ==
    (response.tool = "search_files" /\ "results" \in DOMAIN response.out) =>
        LET lines_of(p) == splitlines(read_text(State, p))
            searched_files(search_path) ==
                IF is_file(State, search_path) THEN {search_path}
                ELSE {p \in DOMAIN files :
                         /\ p # search_path
                         /\ is_relative_to(Path(p), Path(search_path))
                         /\ lower(suffix(p)) = suffix(p)
                         /\ suffix(p) \in {".md", ".txt", ".json"}}
            matches(search_path, query) ==
                UNION {{[file |-> relative_to_docs(p), line |-> i,
                         text |-> strip(lines_of(p)[i])] :
                           i \in {j \in 1..Len(lines_of(p)) :
                                     contains(lower(lines_of(p)[j]), lower(query))}} :
                       p \in searched_files(search_path)}
            results == response.out.results
            expected == matches(ensure_docs_path(response.arguments.path).path,
                                response.arguments.query)
        IN  /\ {results[k] : k \in DOMAIN results} = expected
            /\ Len(results) = Cardinality(expected)
            /\ response.out.total_matches = Len(results)

C30_Witness ==
    /\ response.tool = "search_files"
    /\ response.arguments.path = ""
    /\ "results" \in DOMAIN response.out
    /\ \E k \in DOMAIN response.out.results :
           /\ response.out.results[k].file = "sub.md/b.txt"
           /\ response.out.results[k].text = "X"
    /\ \E k \in DOMAIN response.out.results : response.out.results[k].file = "a.md"

\* C31: write_file to a sandboxed path that can be written (the target is
\* not a directory and no ancestor of it is a regular file) succeeds and
\* writes the content whatever its extension; when the lower-cased extension
\* is in the source/binary list the response has a non-empty warnings list
\* with an entry mentioning the extension; a .md file of at most 300 lines
\* has no warnings.
C31_WarningsNeverBlockWrite ==
    [][(/\ response'.tool = "write_file"
        /\ ~is_alias(response'.arguments.path)
        /\ ~escapes_docs(response'.arguments.path)
        /\ ~is_dir(State, target(response'.arguments.path))
        /\ ~blocked_by_file(State, parent(target(response'.arguments.path)))) =>
            \A file \in {target(response'.arguments.path)},
               content \in {response'.arguments.content},
               out \in {response'.out} :
            \A ext \in {lower(suffix(file))} :
                /\ has_status(response', "written")
                /\ file \in DOMAIN files'
                /\ files'[file] = translate_on_write(content)
                /\ ext \in non_doc_extensions =>
                       /\ "warnings" \in DOMAIN out
                       /\ Len(out.warnings) > 0
                       /\ \E k \in DOMAIN out.warnings : contains(out.warnings[k], ext)
                /\ (ext = ".md" /\ Len(splitlines(content)) <= 300) =>
                       "warnings" \notin DOMAIN out]_vars

C31_Witness ==
    /\ response.tool = "write_file"
    /\ response.arguments.path = "d/y.CPP"
    /\ Len(splitlines(response.arguments.content)) = 300
    /\ has_status(response, "written")
    /\ "warnings" \in DOMAIN response.out
    /\ docs_dir \o "/x.md" \in DOMAIN files
    /\ Len(splitlines(read_text(State, docs_dir \o "/x.md"))) = 300

\* C32: every successful end_job writes exactly one history record, named by
\* the identifier of the session being ended and holding that session's
\* record (goal, plan_steps, completed_steps, progress, issues if any were
\* reported, summary, handoff content, completed_at); no other call changes
\* the history, so the records number the successful end_job calls, and no
\* record is ever overwritten.
C32_OneRecordPerEndedSession ==
    [][/\ \A p \in DOMAIN history :
              p \in DOMAIN history' /\ history'[p] = history[p]
       /\ IF response'.tool = "end_job" /\ has_status(response', "job_completed")
          THEN \A id \in {current_session_id}, arguments \in {response'.arguments} :
               \A p \in {history_dir \o "/session_" \o id \o ".json"} :
                   /\ p \notin DOMAIN history
                   /\ DOMAIN history' = DOMAIN history \cup {p}
                   /\ response'.out.session_id = id
                   /\ \A key \in {"user_goal", "plan_steps", "completed_steps", "progress"}
                                 \cup (DOMAIN active_sessions[id] \cap {"issues"}) :
                          /\ key \in DOMAIN history'[p].json
                          /\ history'[p].json[key] = active_sessions[id][key]
                   /\ history'[p].json["summary"] = arguments.summary
                   /\ history'[p].json["agentreadme_content"] = arguments.agentreadme_content
                   /\ "completed_at" \in DOMAIN history'[p].json
          ELSE history' = history]_vars

C32_Witness ==
    /\ response.tool = "end_job"
    /\ has_status(response, "job_completed")
    /\ response.out.session_id = "uuid2"
    /\ Cardinality(DOMAIN history) = 2
    /\ \E p \in DOMAIN history : "issues" \in DOMAIN history[p].json

\* C33: tool calls never overlap in their effects.  With any calls in
\* flight, the step that finishes an end_job successfully starts in a state
\* where a session is current, meets every precondition of end_job and was
\* not archived before, and it clears the current session, so two end_job
\* calls on one session never both succeed; the step that finishes a proceed
\* successfully adds one progress entry and completes the one step that was
\* pending in the state it starts in, so two proceed calls complete two
\* distinct steps.
C33_CallsDoNotOverlap ==
    [][/\ (/\ Len(tasks') = Len(tasks) - 1
           /\ response'.tool = "end_job"
           /\ has_status(response', "job_completed")) =>
              /\ first_unmet(State, response'.arguments) = 0
              /\ history_file(current_session_id) \notin DOMAIN history
              /\ history_file(current_session_id) \in DOMAIN history'
              /\ response'.out.session_id = current_session_id
              /\ current_session_id' = None
       /\ (/\ Len(tasks') = Len(tasks) - 1
           /\ response'.tool = "proceed"
           /\ has_status(response', "progress_recorded")) =>
              /\ ~no_session(State)
              /\ current_session_id' = current_session_id
              /\ \A before \in {current_session(State)},
                    after \in {active_sessions'[current_session_id]} :
                 \A plan_steps \in {Get(before, "plan_steps", <<>>)},
                    done \in {Get(before, "completed_steps", <<>>)} :
                     /\ Len(after["progress"]) = Len(before["progress"]) + 1
                     /\ Len(done) < Len(plan_steps) =>
                            /\ after["completed_steps"]
                                   = Append(done, plan_steps[Len(done) + 1])
                            /\ response'.out.steps_completed = Len(done) + 1]_vars

C33_Witness ==
    /\ response.tool = "end_job"
    /\ has_status(response, "job_completed")
    /\ \E i \in DOMAIN tasks :
           /\ tasks[i].tool = "end_job"
           /\ tasks[i].dispatched_in = response.out.session_id

\* C34: the handoff document is one fixed file: once init has created it,
\* start_work returns the content of that file, end_job rewrites that file
\* and the read_file aliases return that file.
C34_OneHandoffDocument ==
    [][(init_agentreadme_path \in DOMAIN files) =>
         (/\ (response'.tool = "start_work" /\ has_status(response', "work_started")) =>
                 response'.out.agent_readme_content = read_text(State, init_agentreadme_path)
          /\ (response'.tool = "end_job" /\ has_status(response', "job_completed")) =>
                 files'[init_agentreadme_path]
                     = translate_on_write(response'.arguments.agentreadme_content)
          /\ (response'.tool = "read_file" /\ "content" \in DOMAIN response'.out) =>
                 response'.out.content = read_text(State, init_agentreadme_path))]_vars

\* C35: every path the sandbox resolver returns is the documentation root
\* or a descendant of it, whatever the input string, and every input it does
\* not resolve is rejected with INVALID_PATH.
C35_ResolverStaysUnderRoot ==
    (response.tool \in DocTools /\ ~is_alias(response.arguments.path)) =>
        \A e \in {ensure_docs_path(response.arguments.path)} :
            IF e.ok
            THEN is_relative_to(Path(e.path), Path(docs_dir))
            ELSE failed_with(response, "INVALID_PATH")

\* C36: a successful end_job has written the handoff document and the
\* history record and has cleared the current session; an end_job that a
\* failing write or a stop of the process ends part-way leaves the session
\* current and IN_PROGRESS with every precondition of end_job still met, and
\* on disk the history record of the session is present only if the handoff
\* document was written.
C36_DocumentBeforeHistory ==
    [][response'.tool = "end_job" =>
          \A id \in {current_session_id}, arguments \in {response'.arguments} :
              /\ has_status(response', "job_completed") =>
                     /\ files'[agentreadme_path]
                            = translate_on_write(arguments.agentreadme_content)
                     /\ history_file(id) \in DOMAIN history'
                     /\ current_session_id' = None
              /\ response'.raised # None =>
                     /\ id # None
                     /\ current_session_id' = id
                     /\ active_sessions'[id]["state"] = IN_PROGRESS
                     /\ first_unmet(State', arguments) = 0
                     /\ history_file(id) \in DOMAIN history' =>
                            /\ agentreadme_path \in DOMAIN files'
                            /\ files'[agentreadme_path]
                                   = translate_on_write(arguments.agentreadme_content)]_vars

C36_Witness ==
    /\ response.tool = "end_job"
    /\ response.raised = "Stopped"
    /\ agentreadme_path \in DOMAIN files
    /\ files[agentreadme_path] = translate_on_write(response.arguments.agentreadme_content)
    /\ history_file(current_session_id) \notin DOMAIN history

\* C37: in every reachable state a session is IN_PROGRESS if and only if
\* its progress list is non-empty (a session in STARTED or PLAN_SUBMITTED has
\* no progress), so "no progress reported" is never the first precondition
\* of end_job that fails, whatever the arguments.
C37_InProgressIffProgress ==
    /\ \A id \in DOMAIN active_sessions :
           /\ active_sessions[id]["state"] \in {WORK_STARTED, PLAN_SUBMITTED, IN_PROGRESS}
           /\ active_sessions[id]["state"] = IN_PROGRESS
                  <=> Len(active_sessions[id]["progress"]) > 0
    /\ \A arguments \in EndJobArgs : first_unmet(State, arguments) # 3
    /\ response.tool = "end_job" => reported_unmet(response) # 3

C37_Witness ==
    /\ response.tool = "end_job"
    /\ reported_unmet(response) = 4
    /\ \E id \in DOMAIN active_sessions :
           /\ id # current_session_id
           /\ active_sessions[id]["state"] = PLAN_SUBMITTED
    /\ Len(current_session(State)["progress"]) = 1

\* C38: in every reachable state of a session with a submitted plan,
\* len(completed_steps) = current_step_index = min(len(progress),
\* len(plan_steps)), and completed_steps is the first current_step_index
\* elements of plan_steps.
C38_StepsFollowProgress ==
    \A id \in DOMAIN active_sessions :
        \A session \in {active_sessions[id]} :
            "plan_steps" \in DOMAIN session =>
                /\ Len(session["completed_steps"]) = session["current_step_index"]
                /\ session["current_step_index"]
                       = (IF Len(session["progress"]) <= Len(session["plan_steps"])
                          THEN Len(session["progress"]) ELSE Len(session["plan_steps"]))
                /\ session["completed_steps"]
                       = SubSeq(session["plan_steps"], 1, session["current_step_index"])

C38_Witness ==
    \E id \in DOMAIN active_sessions :
        /\ "plan_steps" \in DOMAIN active_sessions[id]
        /\ Len(active_sessions[id]["plan_steps"]) = 1
        /\ Len(active_sessions[id]["progress"]) = 2
        /\ active_sessions[id]["completed_steps"] = <<"a">>

\* C39: no call moves a session's state back along STARTED ->
\* PLAN_SUBMITTED -> IN_PROGRESS, no call changes the plan_steps of a session
\* that has an accepted plan, and the progress and issues of a session only
\* grow.
C39_SessionOnlyMovesForward ==
    [][\A id \in DOMAIN active_sessions :
           /\ id \in DOMAIN active_sessions'
           /\ \A before \in {active_sessions[id]}, after \in {active_sessions'[id]} :
                  /\ LET rank(state) == CASE state = WORK_STARTED -> 1
                                           [] state = PLAN_SUBMITTED -> 2
                                           [] state = IN_PROGRESS -> 3
                     IN  rank(after["state"]) >= rank(before["state"])
                  /\ "plan_steps" \in DOMAIN before =>
                         /\ "plan_steps" \in DOMAIN after
                         /\ after["plan_steps"] = before["plan_steps"]
                  /\ is_prefix(before["progress"], after["progress"])
                  /\ is_prefix(Get(before, "issues", <<>>), Get(after, "issues", <<>>))]_vars

C39_Witness ==
    /\ response.tool = "plan_setup"
    /\ failed_with(response, "WORKFLOW_VIOLATION")
    /\ session_in(State, IN_PROGRESS)
    /\ "plan_steps" \in DOMAIN response.arguments
    /\ response.arguments.plan_steps.type = "list"
    /\ Len(response.arguments.plan_steps.value) > 0
    /\ current_session(State)["plan_steps"] # response.arguments.plan_steps.value

\* C40: no state of a current session is a dead end.  start_work succeeds
\* in every state; a current session with an accepted plan whose caller
\* keeps calling proceed reaches a state where every step is completed and
\* end_job with a valid handoff document succeeds, unless the session stops
\* being current first; the proceed that completes the last step returns
\* next_step = null; and further proceed and report_issue calls keep the
\* session in that state.
has_plan(st) ==
    IF no_session(st) THEN FALSE ELSE "plan_steps" \in DOMAIN current_session(st)

can_end(st) ==
    IF ~has_plan(st) THEN FALSE
    ELSE /\ current_session(st)["completed_steps"] = current_session(st)["plan_steps"]
         /\ has_status(handle_end_job(st, [summary |-> "s", agentreadme_content |-> DocGood]), "job_completed")

C40_NoDeadEnd ==
    /\ [](\A arguments \in StartWorkArgs :
              has_status(handle_start_work(State, arguments), "work_started"))
    /\ [][/\ (can_end(State) /\ response'.tool \in {"proceed", "report_issue"}) =>
                 can_end(State')
          /\ (/\ response'.tool = "proceed"
              /\ has_plan(State)
              /\ ~can_end(State)
              /\ can_end(State')) =>
                 response'.out.next_step = None]_vars
    /\ \A id \in {uuid4(n) : n \in 1..MaxLiveSessions} :
           (current_session_id = id /\ has_plan(State))
               ~> (current_session_id # id \/ can_end(State))

C40_Witness ==
    /\ response.tool = "proceed"
    /\ has_status(response, "progress_recorded")
    /\ can_end(State)
    /\ Len(current_session(State)["progress"]) > Len(current_session(State)["plan_steps"])
    /\ Len(current_session(State)["plan_steps"]) = 2

====
